---- MODULE Spec2Model ----
(***************************************************************************)
(* The viewing-room core of online-movie-Yu: the Room aggregate            *)
(* (models/Room.js, models/Participant.js), the in-memory RoomRepository   *)
(* with its id allocation (repositories/RoomRepository.js,                 *)
(* utils/IdGenerator.js), the playback state (models/VideoState.js) and    *)
(* the RoomService use cases (services/RoomService.js).                    *)
(*                                                                         *)
(* Node runs every service method to completion: none of them awaits       *)
(* inside its body, so one call is one step.                               *)
(***************************************************************************)
EXTENDS Integers, Sequences, FiniteSets, TLC

----------------------------------------------------------------------------
(* Bounds of the model *)

\* participant/creator tokens IdGenerator.generateUUID can hand out
MaxUuid == 3
\* readings of the millisecond clock
MaxTime == 1
\* leading digits of the room numbers IdGenerator.generateRoomId is seen to draw
NumIds == 2
\* callers with a request in flight at the same moment
NumClients == 3
\* iterations of the id loop that are followed
MaxLoop == 202
\* rooms the registry holds at once when calls come one at a time
MaxRooms == 1
\* readings of the clock, one second apart, while a video state is driven
MaxVideoTime == 2
MaxMessages == 1
NumSockets == 1

----------------------------------------------------------------------------
(* Program constants *)

nameMinLength == 1
nameMaxLength == 50
minCapacity == 2
maxCapacity == 100
defaultCapacity == 10
passwordMaxLength == 20
announcementMaxLength == 500
roomIdLength == 6
maxAttempts == 100

----------------------------------------------------------------------------
(* JavaScript values that cross the service boundary.                      *)
(* A string is the sequence of its characters.  A number is held as twice  *)
(* its value, so that the halves a JSON body can carry (2.5) are values:   *)
(* Num(5) is 2.5 and Whole(3) is 3.                                          *)

Undefined == [t |-> "undefined", s |-> <<>>, n |-> 0]
Null == [t |-> "null", s |-> <<>>, n |-> 0]
Str(chars) == [t |-> "string", s |-> chars, n |-> 0]
Num(halves) == [t |-> "number", s |-> <<>>, n |-> halves]
Whole(i) == Num(2 * i)

IsString(v) == v.t = "string"
IsNumber(v) == v.t = "number"

\* ToBoolean: undefined, null, "" and 0 are falsy
Truthy(v) ==
    CASE v.t = "undefined" -> FALSE
      [] v.t = "null" -> FALSE
      [] v.t = "string" -> v.s # <<>>
      [] v.t = "number" -> v.n # 0

\* a || b
Or(a, b) == IF Truthy(a) THEN a ELSE b

\* String.prototype.trim on the characters
RECURSIVE TrimLeft(_)
TrimLeft(chars) ==
    IF chars # <<>> /\ Head(chars) = " " THEN TrimLeft(Tail(chars)) ELSE chars

RECURSIVE TrimRight(_)
TrimRight(chars) ==
    IF chars # <<>> /\ chars[Len(chars)] = " "
    THEN TrimRight(SubSeq(chars, 1, Len(chars) - 1))
    ELSE chars

Trim(chars) == TrimRight(TrimLeft(chars))

\* parseInt of a number: the number cut to its integer part (toward zero)
ParseInt(v) == IF v.n >= 0 THEN v.n \div 2 ELSE 0 - ((0 - v.n) \div 2)
\* parseInt gives NaN for undefined, null and (the strings of the model hold no digits) strings
ParseIntIsNaN(v) == ~IsNumber(v)

\* size >= capacity, with the capacity as stored (a number in every run of the model)
SizeGE(size, capacity) ==
    IF IsNumber(capacity) THEN 2 * size >= capacity.n ELSE FALSE

Repeat(c, k) == [i \in 1..k |-> c]

----------------------------------------------------------------------------
(* Numbers and strings of digits, as a query string carries them *)

DigitChars == <<"0", "1", "2", "3", "4", "5", "6", "7", "8", "9">>
DigitOf(c) == CHOOSE d \in 0..9 : DigitChars[d + 1] = c

\* the number a string of digits reads as
RECURSIVE DecimalOf(_)
DecimalOf(chars) ==
    IF chars = <<>> THEN 0
    ELSE 10 * DecimalOf(SubSeq(chars, 1, Len(chars) - 1)) + DigitOf(chars[Len(chars)])

\* ToString of a whole number that is not negative
RECURSIVE NumberToString(_)
NumberToString(n) ==
    IF n < 10 THEN <<DigitChars[n + 1]>>
    ELSE NumberToString(n \div 10) \o <<DigitChars[(n % 10) + 1]>>

\* ToNumber, and parseInt, of a whole number or of a string of digits
ToInteger(v) == IF IsNumber(v) THEN ParseInt(v) ELSE DecimalOf(v.s)

\* a + b for a number a: the sum when b is a number, and the two written
\* one after the other when b is a string
Plus(a, b) == IF IsString(b) THEN Str(NumberToString(a) \o b.s) ELSE Whole(a + ToInteger(b))

\* Math.ceil(a / b) for a >= 0 and b >= 1
Ceil(a, b) == (a + b - 1) \div b

\* String.prototype.includes
Includes(chars, part) ==
    \E i \in 0..(Len(chars) - Len(part)) : SubSeq(chars, i + 1, i + Len(part)) = part

\* toLowerCase over the letters the model writes
ToLowerCase(chars) ==
    [i \in DOMAIN chars |->
        CASE chars[i] = "A" -> "a" [] chars[i] = "B" -> "b" [] OTHER -> chars[i]]

\* Array.prototype.slice(start, end)
Slice(seq, start, end) ==
    LET from == IF start < 0 THEN (IF Len(seq) + start < 0 THEN 0 ELSE Len(seq) + start)
                ELSE IF start > Len(seq) THEN Len(seq) ELSE start
        to == IF end < 0 THEN (IF Len(seq) + end < 0 THEN 0 ELSE Len(seq) + end)
              ELSE IF end > Len(seq) THEN Len(seq) ELSE end
    IN  SubSeq(seq, from + 1, to)

----------------------------------------------------------------------------
(* Identifiers *)

\* IdGenerator.generateRoomId(length): a digit string of that length whose
\* first digit is not 0.  The model follows the draws d00..0, d in 1..NumIds.
GenerateRoomId(length) ==
    { [i \in 1..length |-> IF i = 1 THEN d ELSE 0] : d \in 1..NumIds }

ShortIds == GenerateRoomId(roomIdLength)
LongIds == GenerateRoomId(roomIdLength + 2)
RoomIds == ShortIds \cup LongIds

Uuids == 1..MaxUuid
Clients == 1..NumClients

----------------------------------------------------------------------------
VARIABLES
    rooms,       \* RoomRepository.rooms: room id -> Room
    uuids,       \* how many tokens generateUUID has handed out
    now,         \* the clock new Date() reads
    result,      \* what the last service call returned or threw
    dissolved,   \* history: the ids dissolveRoom has deleted so far
    pending,     \* calls in flight, per caller
    responses,   \* what each caller's call returned or threw
    attempts,    \* generateUniqueRoomId: the loop counter
    roomId,      \* generateUniqueRoomId: the candidate
    pc,          \* generateUniqueRoomId: where the loop stands
    video,       \* a VideoState whose methods are called directly
    chat         \* the /chat namespace: each socket's channels and context, the broadcasts

vars == <<rooms, uuids, now, result, dissolved, pending, responses, attempts, roomId, pc, video, chat>>
svcVars == <<rooms, uuids, result>>
raceVars == <<pending, responses>>
loopVars == <<attempts, roomId, pc>>

----------------------------------------------------------------------------
(* models/VideoState.js.  progress and playbackRate are numbers (held as    *)
(* twice their value, like every number here); lastUpdateTime is a reading  *)
(* of the millisecond clock.                                                *)

PlayStatus == {"playing", "paused", "stopped"}

\* new VideoState() is given no options; an absent status reads as ''
NoVideoOptions ==
    [source |-> Undefined, status |-> "", progress |-> Undefined,
     playbackRate |-> Undefined, subtitle |-> Undefined]

\* new VideoState(options) at time t
VideoState(options, t) ==
    [source |-> Or(options.source, Null),
     status |-> IF options.status = "" THEN "paused" ELSE options.status,
     progress |-> Or(options.progress, Whole(0)),
     playbackRate |-> Or(options.playbackRate, Whole(1)),
     subtitle |-> Or(options.subtitle, Null),
     lastUpdateTime |-> t]

SetSource_KeepsProgress(v, source, t) ==
    [v EXCEPT !.source = source, !.status = "paused", !.lastUpdateTime = t]

SetSource(v, source, t) ==
    [v EXCEPT !.source = source, !.progress = Whole(0), !.status = "paused",
              !.lastUpdateTime = t]

\* setStatus of the video state: status and lastUpdateTime, nothing else
VideoSetStatus(v, status, t) ==
    IF status \in PlayStatus
    THEN [v EXCEPT !.status = status, !.lastUpdateTime = t]
    ELSE v

\* a setProgress that stores what it is given
SetProgress_StoresAsGiven(v, progress, t) ==
    [v EXCEPT !.progress = progress, !.lastUpdateTime = t]

SetProgress(v, progress, t) ==
    [v EXCEPT !.progress = IF progress.n > 0 THEN progress ELSE Whole(0),
              !.lastUpdateTime = t]

SetPlaybackRate(v, rate, t) ==
    IF rate.n > 0 /\ rate.n <= Whole(4).n
    THEN [v EXCEPT !.playbackRate = rate, !.lastUpdateTime = t]
    ELSE v

GetCurrentProgress_AlwaysDerived(v, t) ==
    Num(v.progress.n + ((t - v.lastUpdateTime) * v.playbackRate.n) \div 1000)

\* elapsedTime = (Date.now() - lastUpdateTime) / 1000 seconds; in halves of a
\* second the product elapsedTime * playbackRate is (ms * rate.n) / 1000
GetCurrentProgress(v, t) ==
    IF v.status = "playing"
    THEN Num(v.progress.n + ((t - v.lastUpdateTime) * v.playbackRate.n) \div 1000)
    ELSE v.progress

VideoStateToJSON(v, t) ==
    [source |-> v.source,
     status |-> v.status,
     progress |-> v.progress,
     playbackRate |-> v.playbackRate,
     subtitle |-> v.subtitle,
     lastUpdateTime |-> v.lastUpdateTime,
     currentProgress |-> GetCurrentProgress(v, t)]

----------------------------------------------------------------------------
(* models/Participant.js *)

\* a roster entry that takes the creator role whatever the caller asked for
Participant_AlwaysCreator(options, t) ==
    [id |-> options.id, nickname |-> options.nickname, role |-> "creator",
     status |-> "online", joinTime |-> t]

\* new Participant(options) at time t
Participant(options, t) ==
    [id |-> options.id,
     nickname |-> options.nickname,
     role |-> IF options.role = "" THEN "viewer" ELSE options.role,
     status |-> "online",
     joinTime |-> t]

\* Participant.toJSON
ParticipantToJSON(p) ==
    [id |-> p.id, nickname |-> p.nickname, role |-> p.role, status |-> p.status,
     joinTime |-> p.joinTime]

----------------------------------------------------------------------------
(* models/Room.js.  participants is the Map in insertion order. *)

\* Map.has
HasParticipant(room, id) ==
    \E i \in 1..Len(room.participants) : room.participants[i].id = id

\* Map.set: a present key keeps its place and takes the new value
MapSet(ps, p) ==
    IF \E i \in 1..Len(ps) : ps[i].id = p.id
    THEN [i \in 1..Len(ps) |-> IF ps[i].id = p.id THEN p ELSE ps[i]]
    ELSE Append(ps, p)

\* Map.delete
MapDelete(ps, id) == SelectSeq(ps, LAMBDA p : p.id # id)

\* a gate that only null opens
HasPassword_NullOnly(room) == room.password # Null

HasPassword(room) == room.password # Null /\ room.password # Str(<<>>)

\* a gate that lets every candidate through
ValidatePassword_AlwaysTrue(room, password) == TRUE

\* a gate that a call without a password passes
ValidatePassword_AcceptsAbsent(room, password) ==
    \/ ~HasPassword(room)
    \/ password = Undefined
    \/ room.password = password

ValidatePassword(room, password) ==
    IF ~HasPassword(room) THEN TRUE ELSE room.password = password

\* full only once the roster is over the capacity
IsFull_Never(room) == FALSE

IsFull_OffByOne(room) == SizeGE(Len(room.participants), Num(room.capacity.n + 1))

IsFull(room) == SizeGE(Len(room.participants), room.capacity)

\* addParticipant: the room afterwards (unchanged when it returns null)
AddParticipant(room, data, t) ==
    IF IsFull(room) /\ ~HasParticipant(room, data.id)
    THEN room
    ELSE [room EXCEPT !.participants = MapSet(@, Participant(data, t)),
                      !.updateTime = t]

\* a removal that stamps the room whether or not the id was on the roster
RemoveParticipant_AlwaysStamps(room, id, t) ==
    [room EXCEPT !.participants = MapDelete(@, id), !.updateTime = t]

\* removeParticipant: the room afterwards
RemoveParticipant(room, id, t) ==
    IF HasParticipant(room, id)
    THEN [room EXCEPT !.participants = MapDelete(@, id), !.updateTime = t]
    ELSE room

\* a lookup that settles for any participant of the room
GetParticipant_AnyParticipant(room, participantId) == SubSeq(room.participants, 1, 1)

\* getParticipant: Map.get, the participant or nothing
GetParticipant(room, participantId) ==
    SelectSeq(room.participants, LAMBDA p : p.id = participantId)

\* creator rights that end when the creator leaves the roster
IsCreator_WhileInRoster(room, participantId) ==
    room.creatorId = participantId /\ HasParticipant(room, participantId)

\* creator rights for whoever is in the roster
IsCreator_AnyParticipant(room, participantId) ==
    room.creatorId = participantId \/ HasParticipant(room, participantId)

\* creator rights for whoever is not a stranger to the service
IsCreator_AnyToken(room, participantId) == participantId # 0

IsCreator(room, participantId) == room.creatorId = participantId

\* an update that skips a password of no characters
UpdateConfig_SkipsEmptyPassword(room, config, t) ==
    [room EXCEPT
        !.name = IF config.name # Undefined THEN config.name ELSE @,
        !.capacity = IF config.capacity # Undefined THEN config.capacity ELSE @,
        !.password = IF Truthy(config.password) THEN config.password ELSE @,
        !.announcement = IF config.announcement # Undefined THEN config.announcement ELSE @,
        !.updateTime = t]

\* an update that also takes the creatorId of its body
UpdateConfig_TakesCreatorId(room, config, t) ==
    [room EXCEPT
        !.name = IF config.name # Undefined THEN config.name ELSE @,
        !.capacity = IF config.capacity # Undefined THEN config.capacity ELSE @,
        !.password = IF config.password # Undefined THEN config.password ELSE @,
        !.announcement = IF config.announcement # Undefined THEN config.announcement ELSE @,
        !.creatorId = IF config.creatorId # Undefined THEN config.creatorId.n \div 2 ELSE @,
        !.updateTime = t]

\* updateConfig: only the fields that are not undefined are written
\* an update that writes the announcement even when the body has none
UpdateConfig_WritesAnnouncement(room, config, t) ==
    [room EXCEPT
        !.name = IF config.name # Undefined THEN config.name ELSE @,
        !.capacity = IF config.capacity # Undefined THEN config.capacity ELSE @,
        !.password = IF config.password # Undefined THEN config.password ELSE @,
        !.announcement = IF config.announcement # Undefined THEN config.announcement
                         ELSE Str(<<>>),
        !.updateTime = t]

UpdateConfig(room, config, t) ==
    [room EXCEPT
        !.name = IF config.name # Undefined THEN config.name ELSE @,
        !.capacity = IF config.capacity # Undefined THEN config.capacity ELSE @,
        !.password = IF config.password # Undefined THEN config.password ELSE @,
        !.announcement = IF config.announcement # Undefined THEN config.announcement ELSE @,
        !.updateTime = t]

\* RoomStatus
RoomStatus == {"waiting", "playing", "closed"}

\* setStatus(status): any status of the enum is taken, whatever the old one
SetStatus(room, status, t) ==
    IF status \in RoomStatus
    THEN [room EXCEPT !.status = status, !.updateTime = t]
    ELSE room

Close(room, t) == [room EXCEPT !.status = "closed", !.updateTime = t]

\* a constructor that leaves the roster empty
Room_WithoutCreator(options, t) ==
    [id |-> options.id,
     name |-> options.name,
     capacity |-> Or(options.capacity, Whole(10)),
     password |-> Or(options.password, Null),
     announcement |-> Or(options.announcement, Str(<<>>)),
     status |-> "waiting",
     videoState |-> VideoState(NoVideoOptions, t),
     participants |-> <<>>,
     creatorId |-> options.creatorId,
     createTime |-> t,
     updateTime |-> t]

\* new Room(options) at time t
Room(options, t) ==
    LET empty == [id |-> options.id,
                  name |-> options.name,
                  capacity |-> Or(options.capacity, Whole(10)),
                  password |-> Or(options.password, Null),
                  announcement |-> Or(options.announcement, Str(<<>>)),
                  status |-> "waiting",
                  videoState |-> VideoState(NoVideoOptions, t),
                  participants |-> <<>>,
                  creatorId |-> options.creatorId,
                  createTime |-> t,
                  updateTime |-> t]
    IN  IF Truthy(options.creatorNickname)
        THEN AddParticipant(empty,
                 [id |-> options.creatorId, nickname |-> options.creatorNickname,
                  role |-> "creator"], t)
        ELSE empty

\* getCreator: the roster entry under creatorId, or nothing
GetCreator(room) == GetParticipant(room, room.creatorId)

\* the nickname toListJSON shows when the creator is not in the roster
UnknownNickname == Str(<<"?">>)

\* toListJSON
ToListJSON(room) ==
    [id |-> room.id,
     name |-> room.name,
     capacity |-> room.capacity,
     currentCount |-> Len(room.participants),
     hasPassword |-> HasPassword(room),
     status |-> room.status,
     creatorNickname |-> IF GetCreator(room) = <<>> THEN UnknownNickname
                         ELSE Or(GetCreator(room)[1].nickname, UnknownNickname),
     createTime |-> room.createTime]

\* a detail view that carries the password along
ToDetailJSON_WithPassword(room) ==
    [id |-> room.id,
     name |-> room.name,
     capacity |-> room.capacity,
     currentCount |-> Len(room.participants),
     hasPassword |-> HasPassword(room),
     password |-> room.password,
     announcement |-> room.announcement,
     status |-> room.status,
     videoState |-> VideoStateToJSON(room.videoState, now),
     participants |-> [i \in 1..Len(room.participants) |->
                          ParticipantToJSON(room.participants[i])],
     creatorId |-> room.creatorId,
     createTime |-> room.createTime,
     updateTime |-> room.updateTime]

ToDetailJSON(room) ==
    [id |-> room.id,
     name |-> room.name,
     capacity |-> room.capacity,
     currentCount |-> Len(room.participants),
     hasPassword |-> HasPassword(room),
     announcement |-> room.announcement,
     status |-> room.status,
     videoState |-> VideoStateToJSON(room.videoState, now),
     participants |-> [i \in 1..Len(room.participants) |->
                          ParticipantToJSON(room.participants[i])],
     creatorId |-> room.creatorId,
     createTime |-> room.createTime,
     updateTime |-> room.updateTime]

----------------------------------------------------------------------------
(* repositories/RoomRepository.js *)

\* generateUniqueRoomId: the values the loop can return.  Draws 1..99 are of
\* the configured length and the loop leaves with the first one that is not a
\* key; from draw 100 on (reached only when 99 draws met a key) every draw is
\* two digits longer.
GenerateUniqueRoomId_NoHasCheck(registry) == GenerateRoomId(roomIdLength)

GenerateUniqueRoomId(registry) ==
    LET free(ids) == {id \in ids : id \notin DOMAIN registry}
    IN  free(GenerateRoomId(roomIdLength))
          \cup (IF \E id \in GenerateRoomId(roomIdLength) : id \in DOMAIN registry
                THEN free(GenerateRoomId(roomIdLength + 2))
                ELSE {})

\* Map.set on the registry
RegistrySet(registry, id, room) ==
    [k \in DOMAIN registry \cup {id} |-> IF k = id THEN room ELSE registry[k]]

\* a delete that empties the registry
RegistryDelete_Clears(registry, id) == <<>>

\* a delete that leaves the entry in place
RegistryDelete_Keeps(registry, id) == registry

\* Map.delete on the registry
RegistryDelete(registry, id) ==
    [k \in DOMAIN registry \ {id} |-> registry[k]]

\* create(roomData) once the id is drawn
RepositoryCreate(registry, id, roomData, t) ==
    RegistrySet(registry, id,
        Room([id |-> id,
              name |-> roomData.name,
              capacity |-> roomData.capacity,
              password |-> roomData.password,
              announcement |-> roomData.announcement,
              creatorId |-> roomData.creatorId,
              creatorNickname |-> roomData.creatorNickname], t))

\* findById: the room, or null
Exists(registry, id) == id \in DOMAIN registry

----------------------------------------------------------------------------
(* services/RoomService.js *)

\* what a call returned (error = "None") or which exception it threw
Res(op, error, errors, room, who, ok) ==
    [op |-> op, error |-> error, errors |-> errors, room |-> room, who |-> who,
     ok |-> ok]

NoResult == Res("none", "None", <<>>, <<>>, <<>>, FALSE)

\* validateCreateParams: the fields of the collected errors, in order
ValidateCreateParams(data) ==
    LET nameLength == Len(Trim(data.name.s))
        nameErrors ==
            IF ~Truthy(data.name) \/ ~IsString(data.name)
            THEN <<"name">>
            ELSE (IF nameLength < nameMinLength THEN <<"name">> ELSE <<>>)
                 \o (IF nameLength > nameMaxLength THEN <<"name">> ELSE <<>>)
        capacityErrors ==
            IF data.capacity # Undefined
               /\ (ParseIntIsNaN(data.capacity)
                   \/ ParseInt(data.capacity) < minCapacity
                   \/ ParseInt(data.capacity) > maxCapacity)
            THEN <<"capacity">> ELSE <<>>
        passwordErrors ==
            IF Truthy(data.password) /\ Len(data.password.s) > passwordMaxLength
            THEN <<"password">> ELSE <<>>
        announcementErrors ==
            IF Truthy(data.announcement)
               /\ Len(data.announcement.s) > announcementMaxLength
            THEN <<"announcement">> ELSE <<>>
        nicknameErrors ==
            IF ~Truthy(data.creatorNickname) \/ ~IsString(data.creatorNickname)
               \/ Trim(data.creatorNickname.s) = <<>>
            THEN <<"creatorNickname">> ELSE <<>>
    IN  nameErrors \o capacityErrors \o passwordErrors \o announcementErrors
          \o nicknameErrors

\* createRoom(createData)
CreateRoomCall(createData) ==
    LET errors == ValidateCreateParams(createData)
    IN  IF errors # <<>>
        THEN /\ result' = Res("createRoom", "ValidationFailed", errors,
                              <<>>, <<>>, FALSE)
             /\ UNCHANGED <<rooms, uuids>>
        ELSE /\ uuids < MaxUuid
             /\ LET creatorId == uuids + 1
                    nickname == Str(Trim(createData.creatorNickname.s))
                IN  \E id \in GenerateUniqueRoomId(rooms) :
                      /\ rooms' = RepositoryCreate(rooms, id,
                            [name |-> Str(Trim(createData.name.s)),
                             capacity |-> Or(createData.capacity, Whole(defaultCapacity)),
                             password |-> Or(createData.password, Null),
                             announcement |-> Or(createData.announcement, Str(<<>>)),
                             creatorId |-> creatorId,
                             creatorNickname |-> nickname], now)
                      /\ uuids' = uuids + 1
                      /\ result' = Res("createRoom", "None", <<>>,
                            <<ToDetailJSON(rooms'[id])>>,
                            <<[id |-> creatorId, nickname |-> nickname,
                               role |-> "creator"]>>, TRUE)

\* getRoomDetail(roomId)
GetRoomDetailResult(registry, id) ==
    IF ~Exists(registry, id)
    THEN Res("getRoomDetail", "RoomNotFound", <<>>, <<>>, <<>>, FALSE)
    ELSE Res("getRoomDetail", "None", <<>>, <<ToDetailJSON(registry[id])>>, <<>>, TRUE)

GetRoomDetailCall(id) ==
    /\ result' = GetRoomDetailResult(rooms, id)
    /\ UNCHANGED <<rooms, uuids>>

\* verifyRoomPassword(roomId, password)
VerifyRoomPasswordCall(id, password) ==
    /\ result' =
         IF ~Exists(rooms, id)
         THEN Res("verifyRoomPassword", "RoomNotFound", <<>>, <<>>, <<>>, FALSE)
         ELSE IF ~ValidatePassword(rooms[id], password)
         THEN Res("verifyRoomPassword", "InvalidPassword", <<>>, <<>>, <<>>, FALSE)
         ELSE Res("verifyRoomPassword", "None", <<>>, <<>>, <<>>, TRUE)
    /\ UNCHANGED <<rooms, uuids>>

\* checks that look at the password before they look at the room being full
JoinRoomError_PasswordFirst(registry, id, joinData) ==
    IF ~Exists(registry, id) THEN "RoomNotFound"
    ELSE IF registry[id].status = "closed" THEN "RoomClosed"
    ELSE IF HasPassword(registry[id])
            /\ ~ValidatePassword(registry[id], joinData.password)
         THEN "InvalidPassword"
    ELSE IF IsFull(registry[id]) THEN "RoomFull"
    ELSE IF ~Truthy(joinData.nickname) \/ Trim(joinData.nickname.s) = <<>>
         THEN "ValidationFailed"
    ELSE "None"

\* joinRoom: the exception the checks throw, in their order, or "None"
JoinRoomError(registry, id, joinData) ==
    IF ~Exists(registry, id) THEN "RoomNotFound"
    ELSE IF registry[id].status = "closed" THEN "RoomClosed"
    ELSE IF IsFull(registry[id]) THEN "RoomFull"
    ELSE IF HasPassword(registry[id])
            /\ ~ValidatePassword(registry[id], joinData.password)
         THEN "InvalidPassword"
    ELSE IF ~Truthy(joinData.nickname) \/ Trim(joinData.nickname.s) = <<>>
         THEN "ValidationFailed"
    ELSE "None"

\* joinRoom(roomId, joinData)
JoinRoomCall(id, joinData) ==
    LET error == JoinRoomError(rooms, id, joinData)
    IN  IF error # "None"
        THEN /\ result' = Res("joinRoom", error, <<>>, <<>>, <<>>, FALSE)
             /\ UNCHANGED <<rooms, uuids>>
        ELSE /\ uuids < MaxUuid
             /\ LET participantId == uuids + 1
                    room == AddParticipant(rooms[id],
                               [id |-> participantId,
                                nickname |-> Str(Trim(joinData.nickname.s)),
                                role |-> "viewer"], now)
                IN  /\ rooms' = [rooms EXCEPT ![id] = room]
                    /\ uuids' = uuids + 1
                    /\ result' = Res("joinRoom", "None", <<>>,
                          <<ToDetailJSON(room)>>,
                          <<ParticipantToJSON(
                              room.participants[
                                CHOOSE i \in 1..Len(room.participants) :
                                  room.participants[i].id = participantId])>>,
                          TRUE)

\* leaveRoom(roomId, participantId)
LeaveRoomCall(id, participantId) ==
    IF ~Exists(rooms, id)
    THEN /\ result' = Res("leaveRoom", "RoomNotFound", <<>>, <<>>, <<>>, FALSE)
         /\ UNCHANGED <<rooms, uuids>>
    ELSE /\ rooms' = [rooms EXCEPT ![id] = RemoveParticipant(@, participantId, now)]
         /\ result' = Res("leaveRoom", "None", <<>>, <<>>, <<>>,
                          HasParticipant(rooms[id], participantId))
         /\ UNCHANGED uuids

\* dissolveRoom(roomId, operatorId)
DissolveRoomCall(id, operatorId) ==
    IF ~Exists(rooms, id)
    THEN /\ result' = Res("dissolveRoom", "RoomNotFound", <<>>, <<>>, <<>>, FALSE)
         /\ UNCHANGED <<rooms, uuids>>
    ELSE IF ~IsCreator(rooms[id], operatorId)
    THEN /\ result' = Res("dissolveRoom", "PermissionDenied", <<>>, <<>>, <<>>, FALSE)
         /\ UNCHANGED <<rooms, uuids>>
    ELSE /\ rooms' = RegistryDelete([rooms EXCEPT ![id] = Close(@, now)], id)
         /\ result' = Res("dissolveRoom", "None", <<>>, <<>>, <<>>, TRUE)
         /\ UNCHANGED uuids

\* updateRoom(roomId, operatorId, updateData)
UpdateRoomCall(id, operatorId, updateData) ==
    IF ~Exists(rooms, id)
    THEN /\ result' = Res("updateRoom", "RoomNotFound", <<>>, <<>>, <<>>, FALSE)
         /\ UNCHANGED <<rooms, uuids>>
    ELSE IF ~IsCreator(rooms[id], operatorId)
    THEN /\ result' = Res("updateRoom", "PermissionDenied", <<>>, <<>>, <<>>, FALSE)
         /\ UNCHANGED <<rooms, uuids>>
    ELSE /\ rooms' = [rooms EXCEPT ![id] = UpdateConfig(@, updateData, now)]
         /\ result' = Res("updateRoom", "None", <<>>,
                          <<ToDetailJSON(rooms'[id])>>, <<>>, TRUE)
         /\ UNCHANGED uuids

----------------------------------------------------------------------------
(* The queries: RoomRepository.findAll and search, getRoomList, getRoomStats.
   A set of ids stands for the array of rooms where its order plays no part. *)

\* findAll({excludeClosed})
FindAll(registry, excludeClosed) ==
    {id \in DOMAIN registry : excludeClosed => registry[id].status # "closed"}

\* the characters of a room id
IdChars(id) == [i \in DOMAIN id |-> DigitChars[id[i] + 1]]

\* a boolean of the criteria
Bool(b) == [t |-> "boolean", s |-> <<>>, n |-> IF b THEN 1 ELSE 0]

\* a search that looks for the keyword in the names alone
Search_NameOnly(registry, criteria) ==
    {id \in FindAll(registry, TRUE) :
        /\ Truthy(criteria.keyword) =>
             Includes(ToLowerCase(registry[id].name.s), ToLowerCase(criteria.keyword.s))
        /\ criteria.status # "" => registry[id].status = criteria.status
        /\ criteria.hasPassword # Undefined =>
             Bool(HasPassword(registry[id])) = criteria.hasPassword}

\* search({keyword, status, hasPassword}): status "" stands for none
Search(registry, criteria) ==
    {id \in FindAll(registry, TRUE) :
        /\ Truthy(criteria.keyword) =>
             \/ Includes(ToLowerCase(registry[id].name.s), ToLowerCase(criteria.keyword.s))
             \/ Includes(IdChars(id), ToLowerCase(criteria.keyword.s))
        /\ criteria.status # "" => registry[id].status = criteria.status
        /\ criteria.hasPassword # Undefined =>
             Bool(HasPassword(registry[id])) = criteria.hasPassword}

\* rooms.sort((a, b) => b.createTime - a.createTime): the orders it can leave
\* the found rooms in.  Rooms of one createTime keep the order of the Map,
\* which the registry of the model does not record: any order of theirs.
SortedByCreateTime(registry, found) ==
    {order \in [1..Cardinality(found) -> found] :
        /\ \A i, j \in DOMAIN order : i # j => order[i] # order[j]
        /\ \A i, j \in DOMAIN order :
             i < j => registry[order[i]].createTime >= registry[order[j]].createTime}

\* getRoomList(options): the results it can return
GetRoomListResults(registry, options) ==
    LET page == IF options.page = Undefined THEN Whole(1) ELSE options.page
        pageSize == IF options.pageSize = Undefined THEN Whole(20) ELSE options.pageSize
        found == Search(registry, [keyword |-> options.keyword, status |-> options.status,
                                   hasPassword |-> Undefined])
        total == Cardinality(found)
        totalPages == Ceil(total, ToInteger(pageSize))
        startIndex == (ToInteger(page) - 1) * ToInteger(pageSize)
        endIndex == Plus(startIndex, pageSize)
    IN  {[list |-> LET pagedRooms == Slice(rooms_, startIndex, ToInteger(endIndex))
                   IN  [i \in DOMAIN pagedRooms |-> ToListJSON(registry[pagedRooms[i]])],
          pagination |-> [page |-> ToInteger(page), pageSize |-> ToInteger(pageSize),
                          total |-> total, totalPages |-> totalPages]] :
            rooms_ \in SortedByCreateTime(registry, found)}

\* RoomController.getRoomList: the query strings go to the service as they are
GetRoomListCall(query) ==
    /\ \E listed \in GetRoomListResults(rooms,
              [keyword |-> query.keyword, status |-> query.status,
               page |-> Or(query.page, Whole(1)),
               pageSize |-> Or(query.pageSize, Whole(20))]) :
          result' = Res("getRoomList", "None", <<>>, listed.list,
                        <<listed.pagination>>, TRUE)
    /\ UNCHANGED <<rooms, uuids>>

\* rooms.forEach: the sum of participants.size
RECURSIVE SumOfSizes(_, _)
SumOfSizes(registry, found) ==
    IF found = {} THEN 0
    ELSE LET id == CHOOSE id \in found : TRUE
         IN  Len(registry[id].participants) + SumOfSizes(registry, found \ {id})

\* statistics that count no waiting room
RoomStats_WaitingUncounted(registry) ==
    LET found == FindAll(registry, TRUE)
    IN  [totalRooms |-> Cardinality(found),
         totalParticipants |-> SumOfSizes(registry, found),
         waitingRooms |-> 0,
         playingRooms |-> Cardinality({id \in found : registry[id].status = "playing"})]

\* getRoomStats()
RoomStats(registry) ==
    LET found == FindAll(registry, TRUE)
    IN  [totalRooms |-> Cardinality(found),
         totalParticipants |-> SumOfSizes(registry, found),
         waitingRooms |-> Cardinality({id \in found : registry[id].status = "waiting"}),
         playingRooms |-> Cardinality({id \in found : registry[id].status = "playing"})]

GetRoomStatsCall ==
    /\ result' = Res("getRoomStats", "None", <<>>, <<>>, <<RoomStats(rooms)>>, TRUE)
    /\ UNCHANGED <<rooms, uuids>>

----------------------------------------------------------------------------
(* services/ChatService.js and the gateway of the /chat namespace *)

messageMaxLength == 200

\* joinRoomChat(roomId, participantId): what it throws
JoinRoomChatError(registry, id, participantId) ==
    IF ~Exists(registry, id) THEN "ROOM_NOT_FOUND"
    ELSE IF GetParticipant(registry[id], participantId) = <<>> THEN "NOT_IN_ROOM"
    ELSE "None"

\* sendMessage(roomId, participantId, content): what it throws; the content is
\* looked at before the room
SendMessageError(registry, id, participantId, content) ==
    IF ~Truthy(content) \/ ~IsString(content) THEN "VALIDATION_ERROR"
    ELSE IF Len(Trim(content.s)) = 0 THEN "VALIDATION_ERROR"
    ELSE IF Len(Trim(content.s)) > messageMaxLength THEN "VALIDATION_ERROR"
    ELSE IF ~Exists(registry, id) THEN "ROOM_NOT_FOUND"
    ELSE IF registry[id].status = "closed" THEN "ROOM_CLOSED"
    ELSE IF GetParticipant(registry[id], participantId) = <<>> THEN "NOT_IN_ROOM"
    ELSE "None"

\* the message sendMessage builds at time t; suffix is the Math.random part
\* of the id
MessageDto(room, participantId, content, t, suffix) ==
    LET participant == GetParticipant(room, participantId)[1]
    IN  [messageId |-> <<t, suffix>>,
         roomId |-> room.id,
         from |-> [participantId |-> participant.id,
                   nickname |-> participant.nickname,
                   role |-> participant.role],
         content |-> Str(Trim(content.s)),
         sentAt |-> t]

Sockets == 1..NumSockets
NoContext == [roomId |-> <<>>, participantId |-> 0]

\* no socket in a channel, nothing broadcast
NoChat ==
    [channels |-> {}, data |-> [c \in Sockets |-> NoContext], broadcast |-> <<>>]

\* socket.on('room:join')
RoomJoinCall(c, id, participantId) ==
    LET error == JoinRoomChatError(rooms, id, participantId)
    IN  IF error # "None"
        THEN /\ result' = Res("room:join", error, <<>>, <<>>, <<>>, FALSE)
             /\ UNCHANGED chat
        ELSE /\ chat' = [chat EXCEPT
                           !.channels = @ \cup {<<c, id>>},
                           !.data[c] = [roomId |-> id, participantId |-> participantId]]
             /\ result' = Res("room:join", "None", <<>>, <<>>, <<>>, TRUE)

\* socket.on('message:send'): the message goes to the sockets of the channel
MessageSendCall(c, id, participantId, content) ==
    LET error == SendMessageError(rooms, id, participantId, content)
    IN  IF error # "None"
        THEN /\ result' = Res("message:send", error, <<>>, <<>>, <<>>, FALSE)
             /\ UNCHANGED chat
        ELSE /\ Len(chat.broadcast) < MaxMessages
             /\ \E suffix \in 1..NumIds :
                  LET messageDto == MessageDto(rooms[id], participantId, content,
                                               now, suffix)
                  IN  /\ chat' = [chat EXCEPT !.broadcast = Append(@,
                              [channel |-> id,
                               to |-> {s \in Sockets : <<s, id>> \in chat.channels},
                               message |-> messageDto])]
                      /\ result' = Res("message:send", "None", <<>>, <<>>,
                                       <<messageDto.from>>, TRUE)

----------------------------------------------------------------------------
(* The requests the callers send *)

Name_a == Str(<<"a">>)
Name_b == Str(<<"b">>)
Pw_abc == Str(<<"a", "b", "c">>)
Pw_xyz == Str(<<"x", "y", "z">>)
Nick_n == Str(<<"n">>)
Blank == Str(<<" ">>)
Empty == Str(<<>>)

\* bodies of POST /api/rooms: some that validation lets through, some it stops
ValidCreateInputs ==
    [name : {Name_a}, capacity : {Whole(2), Num(5), Whole(3)},
     password : {Undefined, Pw_abc}, announcement : {Undefined},
     creatorNickname : {Nick_n}]
    \cup [name : {Name_a}, capacity : {Undefined}, password : {Undefined},
          announcement : {Undefined}, creatorNickname : {Nick_n}]

InvalidCreateInputs ==
    {[name |-> Undefined, capacity |-> Whole(1), password |-> Undefined,
      announcement |-> Undefined, creatorNickname |-> Nick_n],
     [name |-> Name_a, capacity |-> Whole(maxCapacity + 1), password |-> Undefined,
      announcement |-> Undefined, creatorNickname |-> Blank]}

CreateInputs == ValidCreateInputs \cup InvalidCreateInputs

\* bodies of POST /api/rooms/:roomId/join
JoinInputs == [nickname : {Blank, Nick_n}, password : {Undefined, Pw_abc, Pw_xyz}]

PasswordInputs == {Undefined, Empty, Pw_abc, Pw_xyz}

\* the partial updates PATCH bodies carry
NoUpdate ==
    [name |-> Undefined, capacity |-> Undefined, password |-> Undefined,
     announcement |-> Undefined, id |-> Undefined, creatorId |-> Undefined]

UpdateInputs ==
    {[NoUpdate EXCEPT !.password = Empty],
     [NoUpdate EXCEPT !.name = Name_b, !.capacity = Whole(2),
                      !.id = Str(<<"9">>), !.creatorId = Whole(2)]}

\* operator and participant ids a caller may send: a token, or 0 for one that
\* was never issued
IdInputs == 0..MaxUuid

\* a call in flight: createRoom(body) or joinRoom(id, body)
NoBody ==
    [name |-> Undefined, capacity |-> Undefined, password |-> Undefined,
     announcement |-> Undefined, creatorNickname |-> Undefined, nickname |-> Undefined]

Request(op, id, body) == [op |-> op, id |-> id, body |-> body]

NoRequest == Request("none", <<>>, NoBody)

----------------------------------------------------------------------------
(* The service as the HTTP boundary drives it: one call at a time *)

Init ==
    /\ rooms = <<>>
    /\ uuids = 0
    /\ now = 0
    /\ result = NoResult
    /\ dissolved = {}
    /\ pending = [c \in Clients |-> NoRequest]
    /\ responses = [c \in Clients |-> <<>>]
    /\ attempts = 0
    /\ roomId = <<>>
    /\ pc = "idle"
    /\ video = VideoState(NoVideoOptions, 0)
    /\ chat = NoChat

Idle == pc = "idle" /\ \A c \in Clients : pending[c] = NoRequest

otherVars == <<now, dissolved, pending, responses, attempts, roomId, pc, video, chat>>

CreateRoom(createData) ==
    /\ Idle
    /\ Cardinality(DOMAIN rooms) < MaxRooms
    /\ CreateRoomCall(createData)
    /\ UNCHANGED otherVars

GetRoomDetail(id) ==
    /\ Idle
    /\ GetRoomDetailCall(id)
    /\ UNCHANGED otherVars

VerifyRoomPassword(id, password) ==
    /\ Idle
    /\ VerifyRoomPasswordCall(id, password)
    /\ UNCHANGED otherVars

JoinRoom(id, joinData) ==
    /\ Idle
    /\ JoinRoomCall(id, joinData)
    /\ UNCHANGED otherVars

LeaveRoom(id, participantId) ==
    /\ Idle
    /\ LeaveRoomCall(id, participantId)
    /\ UNCHANGED otherVars

DissolveRoom(id, operatorId) ==
    /\ Idle
    /\ DissolveRoomCall(id, operatorId)
    /\ UNCHANGED otherVars

UpdateRoom(id, operatorId, updateData) ==
    /\ Idle
    /\ UpdateRoomCall(id, operatorId, updateData)
    /\ UNCHANGED otherVars

\* the clock moves on between calls
Tick ==
    /\ Idle
    /\ now < MaxTime
    /\ now' = now + 1
    /\ UNCHANGED <<svcVars, dissolved, raceVars, loopVars, video, chat>>

Next ==
    \/ \E createData \in CreateInputs : CreateRoom(createData)
    \/ \E id \in RoomIds : GetRoomDetail(id)
    \/ \E id \in RoomIds, password \in PasswordInputs : VerifyRoomPassword(id, password)
    \/ \E id \in RoomIds, joinData \in JoinInputs : JoinRoom(id, joinData)
    \/ \E id \in RoomIds, participantId \in IdInputs : LeaveRoom(id, participantId)
    \/ \E id \in RoomIds, operatorId \in IdInputs : DissolveRoom(id, operatorId)
    \/ \E id \in RoomIds, operatorId \in IdInputs, updateData \in UpdateInputs :
          UpdateRoom(id, operatorId, updateData)
    \/ Tick

Spec == Init /\ [][Next]_vars

----------------------------------------------------------------------------
(* Admission alone: rooms are created, joined and left, never reconfigured *)

NextAdmission ==
    \/ \E createData \in CreateInputs : CreateRoom(createData)
    \/ \E id \in RoomIds, joinData \in JoinInputs : JoinRoom(id, joinData)
    \/ \E id \in RoomIds, participantId \in IdInputs : LeaveRoom(id, participantId)
    \/ Tick

SpecAdmission == Init /\ [][NextAdmission]_vars

----------------------------------------------------------------------------
(* The lifetimes of an id: the service with a record of the ids dissolved *)

DissolveRoomRecorded(id, operatorId) ==
    /\ Idle
    /\ DissolveRoomCall(id, operatorId)
    /\ dissolved' = IF result'.ok THEN dissolved \cup {id} ELSE dissolved
    /\ UNCHANGED <<now, raceVars, loopVars, video, chat>>

LifetimeCreateInputs ==
    {d \in CreateInputs : d.capacity \in {Whole(2), Whole(1)}}

NextLifetime ==
    \/ \E createData \in LifetimeCreateInputs : CreateRoom(createData)
    \/ \E id \in RoomIds : GetRoomDetail(id)
    \/ \E id \in RoomIds, password \in PasswordInputs : VerifyRoomPassword(id, password)
    \/ \E id \in RoomIds, joinData \in JoinInputs : JoinRoom(id, joinData)
    \/ \E id \in RoomIds, participantId \in IdInputs : LeaveRoom(id, participantId)
    \/ \E id \in RoomIds, operatorId \in IdInputs : DissolveRoomRecorded(id, operatorId)
    \/ \E id \in RoomIds, operatorId \in IdInputs, updateData \in UpdateInputs :
          UpdateRoom(id, operatorId, updateData)

SpecLifetime == Init /\ [][NextLifetime]_vars

----------------------------------------------------------------------------
(* Calls issued together.  The requests of several callers are in flight at   *)
(* once and the event loop runs their handlers one after the other, in any    *)
(* order.  The registry the calls meet was built earlier (at time 0).         *)

SeedId == CHOOSE id \in ShortIds : \A other \in ShortIds : id[1] <= other[1]

RECURSIVE WithViewers(_, _)
WithViewers(room, k) ==
    IF k = 0 THEN room
    ELSE AddParticipant(WithViewers(room, k - 1),
             [id |-> k + 1, nickname |-> Nick_n, role |-> "viewer"], 0)

\* the registry after createRoom and k joinRoom calls at time 0
SeedRegistry(capacity, password, k) ==
    [id \in {SeedId} |->
        WithViewers(
            RepositoryCreate(<<>>, SeedId,
                [name |-> Name_a, capacity |-> capacity, password |-> password,
                 announcement |-> Str(<<>>), creatorId |-> 1,
                 creatorNickname |-> Nick_n], 0)[SeedId],
            k)]

ConcurrentRequests ==
    {Request("createRoom", <<>>, [NoBody EXCEPT !.name = Name_a, !.creatorNickname = Nick_n])}
    \cup {Request("joinRoom", SeedId, [NoBody EXCEPT !.nickname = n, !.password = p]) :
            n \in {Blank, Nick_n}, p \in {Undefined, Pw_abc}}

InitConcurrent ==
    /\ \/ rooms = <<>> /\ uuids = 0
       \/ \E capacity \in {Whole(2), Num(5), Whole(3)}, password \in {Null, Pw_abc},
             k \in 0..(MaxUuid - 2) :
            /\ 2 * (k + 1) < capacity.n
            /\ rooms = SeedRegistry(capacity, password, k)
            /\ uuids = k + 1
    /\ now = 1
    /\ result = NoResult
    /\ dissolved = {}
    /\ pending \in [Clients -> ConcurrentRequests]
    /\ responses = [c \in Clients |-> <<>>]
    /\ attempts = 0
    /\ roomId = <<>>
    /\ pc = "idle"
    /\ video = VideoState(NoVideoOptions, 0)
    /\ chat = NoChat

Respond(c) ==
    /\ responses' = [responses EXCEPT ![c] = <<[request |-> pending[c], result |-> result']>>]
    /\ pending' = [pending EXCEPT ![c] = NoRequest]
    /\ UNCHANGED <<now, dissolved, loopVars, video, chat>>

HandleCreateRoom(c) ==
    /\ pending[c].op = "createRoom"
    /\ CreateRoomCall(pending[c].body)
    /\ Respond(c)

HandleJoinRoom(c) ==
    /\ pending[c].op = "joinRoom"
    /\ JoinRoomCall(pending[c].id,
          [nickname |-> pending[c].body.nickname, password |-> pending[c].body.password])
    /\ Respond(c)

NextConcurrent ==
    \/ \E c \in Clients : HandleCreateRoom(c)
    \/ \E c \in Clients : HandleJoinRoom(c)

SpecConcurrent == InitConcurrent /\ [][NextConcurrent]_vars

----------------------------------------------------------------------------
(* The id allocation of RoomRepository.create, one loop iteration per step.   *)
(* The registry the call meets holds any set of the ids that can be drawn.    *)

AllocCreatorId(id) == id[1] + (IF Len(id) = roomIdLength THEN 0 ELSE NumIds)

AllocRoomData(creatorId) ==
    [name |-> Name_a, capacity |-> Whole(defaultCapacity), password |-> Null,
     announcement |-> Str(<<>>), creatorId |-> creatorId, creatorNickname |-> Nick_n]

InitAlloc ==
    /\ \E keys \in SUBSET RoomIds :
          rooms = [id \in keys |->
                      RepositoryCreate(<<>>, id, AllocRoomData(AllocCreatorId(id)), 0)[id]]
    /\ uuids = 2 * NumIds
    /\ now = 1
    /\ result = NoResult
    /\ dissolved = {}
    /\ pending = [c \in Clients |-> NoRequest]
    /\ responses = [c \in Clients |-> <<>>]
    /\ attempts = 0
    /\ roomId = <<>>
    /\ pc = "idle"
    /\ video = VideoState(NoVideoOptions, 0)
    /\ chat = NoChat

\* createRoom up to the entry of the do-while loop
GenerateUniqueRoomIdEnter ==
    /\ pc = "idle"
    /\ uuids' = uuids + 1
    /\ attempts' = 0
    /\ roomId' = <<>>
    /\ pc' = "loop"
    /\ UNCHANGED <<rooms, now, result, dissolved, pending, responses, video, chat>>

\* one iteration of the do-while loop, its condition included
GenerateUniqueRoomIdIterate ==
    /\ pc = "loop"
    /\ attempts < MaxLoop
    /\ attempts' = attempts + 1
    /\ \E drawn \in GenerateRoomId(roomIdLength),
          longer \in GenerateRoomId(roomIdLength + 2) :
          roomId' = IF attempts' >= maxAttempts THEN longer ELSE drawn
    /\ pc' = IF roomId' \in DOMAIN rooms THEN "loop" ELSE "return"
    /\ UNCHANGED <<rooms, uuids, now, result, dissolved, pending, responses, video, chat>>

\* the loop is left: the room is built and stored, createRoom returns
GenerateUniqueRoomIdReturn ==
    /\ pc = "return"
    /\ rooms' = RepositoryCreate(rooms, roomId, AllocRoomData(uuids), now)
    /\ result' = Res("createRoom", "None", <<>>, <<ToDetailJSON(rooms'[roomId])>>,
                     <<[id |-> uuids, nickname |-> Nick_n, role |-> "creator"]>>, TRUE)
    /\ pc' = "idle"
    /\ UNCHANGED <<uuids, now, dissolved, pending, responses, attempts, roomId, video, chat>>

NextAlloc ==
    \/ GenerateUniqueRoomIdEnter
    \/ GenerateUniqueRoomIdIterate
    \/ GenerateUniqueRoomIdReturn

SpecAlloc == InitAlloc /\ [][NextAlloc]_vars

----------------------------------------------------------------------------
(* One VideoState object: its methods are called in any order while the     *)
(* clock moves on.                                                          *)

SourceInputs == {Null, Str(<<"v">>)}
StatusInputs == PlayStatus \cup {"seeking"}
ProgressInputs == {Num(0 - 2), Whole(0), Num(3)}
RateInputs == {Whole(0), Num(1), Whole(2), Whole(4), Num(9)}

\* milliseconds between two readings of Date.now() that are followed
ClockStep == 1000

InitVideo == Init

VideoFrame == UNCHANGED <<rooms, uuids, now, dissolved, raceVars, loopVars, chat>>

VideoSetSource(source) ==
    /\ video' = SetSource(video, source, now)
    /\ result' = Res("setSource", "None", <<>>, <<>>, <<>>, TRUE)
    /\ VideoFrame

VideoStateSetStatus(status) ==
    /\ video' = VideoSetStatus(video, status, now)
    /\ result' = Res("setStatus", "None", <<>>, <<>>, <<>>, TRUE)
    /\ VideoFrame

VideoSetProgress(progress) ==
    /\ video' = SetProgress(video, progress, now)
    /\ result' = Res("setProgress", "None", <<>>, <<>>, <<>>, TRUE)
    /\ VideoFrame

VideoSetPlaybackRate(rate) ==
    /\ video' = SetPlaybackRate(video, rate, now)
    /\ result' = Res("setPlaybackRate", "None", <<>>, <<>>, <<>>, TRUE)
    /\ VideoFrame

\* toJSON(): a read of the stored fields and of getCurrentProgress()
VideoToJSON ==
    /\ result' = Res("toJSON", "None", <<>>, <<VideoStateToJSON(video, now)>>, <<>>, TRUE)
    /\ UNCHANGED video
    /\ VideoFrame

VideoTick ==
    /\ now < MaxVideoTime * ClockStep
    /\ now' = now + ClockStep
    /\ UNCHANGED <<svcVars, dissolved, raceVars, loopVars, video, chat>>

NextVideo ==
    \/ \E source \in SourceInputs : VideoSetSource(source)
    \/ \E status \in StatusInputs : VideoStateSetStatus(status)
    \/ \E progress \in ProgressInputs : VideoSetProgress(progress)
    \/ \E rate \in RateInputs : VideoSetPlaybackRate(rate)
    \/ VideoToJSON
    \/ VideoTick

SpecVideo == InitVideo /\ [][NextVideo]_vars

----------------------------------------------------------------------------
(* Configuration: rooms are created, joined and reconfigured, with request  *)
(* bodies on both sides of every bound of config.room.                      *)

LongPassword == Str(Repeat("p", passwordMaxLength + 1))
LongAnnouncement == Str(Repeat("x", announcementMaxLength + 1))
Note_x == Str(<<"x">>)

ConfigCreateInputs ==
    {[name |-> Name_a, capacity |-> Whole(3), password |-> Pw_abc,
      announcement |-> Undefined, creatorNickname |-> Nick_n],
     [name |-> Name_a, capacity |-> Num(5), password |-> Undefined,
      announcement |-> Undefined, creatorNickname |-> Nick_n],
     [name |-> Empty, capacity |-> Num(5), password |-> Undefined,
      announcement |-> Undefined, creatorNickname |-> Nick_n],
     [name |-> Undefined, capacity |-> Whole(1), password |-> LongPassword,
      announcement |-> LongAnnouncement, creatorNickname |-> Blank],
     [name |-> Blank, capacity |-> Whole(maxCapacity + 1), password |-> Pw_abc,
      announcement |-> Note_x, creatorNickname |-> Nick_n]}
    \cup InvalidCreateInputs

ConfigJoinInputs == [nickname : {Nick_n}, password : {Undefined, Pw_abc}]

ConfigInputs ==
    {[NoUpdate EXCEPT !.name = Name_b],
     [NoUpdate EXCEPT !.capacity = Whole(2)],
     [NoUpdate EXCEPT !.password = Empty],
     [NoUpdate EXCEPT !.announcement = Note_x],
     [NoUpdate EXCEPT !.name = Name_b, !.capacity = Whole(maxCapacity + 1)],
     [NoUpdate EXCEPT !.name = Empty],
     [NoUpdate EXCEPT !.password = LongPassword]}

NextConfig ==
    \/ \E createData \in ConfigCreateInputs : CreateRoom(createData)
    \/ \E id \in RoomIds, joinData \in ConfigJoinInputs : JoinRoom(id, joinData)
    \/ \E id \in RoomIds, operatorId \in IdInputs, updateData \in ConfigInputs :
          UpdateRoom(id, operatorId, updateData)
    \/ Tick

SpecConfig == Init /\ [][NextConfig]_vars

----------------------------------------------------------------------------
(* One Room object and the methods of models/Room.js called on it *)

RoomStatusInputs == RoomStatus \cup {"paused"}
RoomParticipantInputs ==
    {[id |-> i, nickname |-> Nick_n, role |-> "viewer"] : i \in 1..MaxUuid}

\* new Room(options) with a creator, kept under its id
InitRoom ==
    /\ rooms = [id \in {SeedId} |->
                  Room([id |-> SeedId, name |-> Name_a, capacity |-> Whole(2),
                        password |-> Pw_abc, announcement |-> Undefined,
                        creatorId |-> 1, creatorNickname |-> Nick_n], 0)]
    /\ uuids = 1
    /\ now = 0
    /\ result = NoResult
    /\ dissolved = {}
    /\ pending = [c \in Clients |-> NoRequest]
    /\ responses = [c \in Clients |-> <<>>]
    /\ attempts = 0
    /\ roomId = <<>>
    /\ pc = "idle"
    /\ video = VideoState(NoVideoOptions, 0)
    /\ chat = NoChat

RoomFrame == UNCHANGED <<uuids, now, dissolved, raceVars, loopVars, video, chat>>

RoomSetStatus(status) ==
    /\ rooms' = [rooms EXCEPT ![SeedId] = SetStatus(@, status, now)]
    /\ result' = Res("Room.setStatus", "None", <<>>, <<>>, <<>>, TRUE)
    /\ RoomFrame

RoomUpdateConfig(config) ==
    /\ rooms' = [rooms EXCEPT ![SeedId] = UpdateConfig(@, config, now)]
    /\ result' = Res("Room.updateConfig", "None", <<>>, <<>>, <<>>, TRUE)
    /\ RoomFrame

\* addParticipant returns the participant, or null from a full room
RoomAddParticipant(data) ==
    /\ rooms' = [rooms EXCEPT ![SeedId] = AddParticipant(@, data, now)]
    /\ result' = Res("Room.addParticipant", "None", <<>>, <<>>, <<>>,
                     ~(IsFull(rooms[SeedId]) /\ ~HasParticipant(rooms[SeedId], data.id)))
    /\ RoomFrame

\* removeParticipant returns whether an entry was deleted
RoomRemoveParticipant(participantId) ==
    /\ rooms' = [rooms EXCEPT ![SeedId] = RemoveParticipant(@, participantId, now)]
    /\ result' = Res("Room.removeParticipant", "None", <<>>, <<>>, <<>>,
                     HasParticipant(rooms[SeedId], participantId))
    /\ RoomFrame

RoomClose ==
    /\ rooms' = [rooms EXCEPT ![SeedId] = Close(@, now)]
    /\ result' = Res("Room.close", "None", <<>>, <<>>, <<>>, TRUE)
    /\ RoomFrame

NextRoom ==
    \/ \E status \in RoomStatusInputs : RoomSetStatus(status)
    \/ \E config \in UpdateInputs : RoomUpdateConfig(config)
    \/ \E data \in RoomParticipantInputs : RoomAddParticipant(data)
    \/ \E participantId \in IdInputs : RoomRemoveParticipant(participantId)
    \/ RoomClose
    \/ Tick

SpecRoom == InitRoom /\ [][NextRoom]_vars

----------------------------------------------------------------------------
(* The chat gateway beside the service *)

ChatCreateInputs ==
    {[name |-> Name_a, capacity |-> Whole(2), password |-> Undefined,
      announcement |-> Undefined, creatorNickname |-> Nick_n]}
ChatJoinInputs == [nickname : {Nick_n}, password : {Undefined}]
ContentInputs ==
    {Whole(5), Blank,
     Str(<<" ">> \o Repeat("m", messageMaxLength)),
     Str(Repeat("m", messageMaxLength + 1))}

ChatFrame == UNCHANGED <<rooms, uuids, now, dissolved, raceVars, loopVars, video>>

RoomJoin(c, id, participantId) ==
    /\ Idle
    /\ RoomJoinCall(c, id, participantId)
    /\ ChatFrame

MessageSend(c, id, participantId, content) ==
    /\ Idle
    /\ MessageSendCall(c, id, participantId, content)
    /\ ChatFrame

NextChat ==
    \/ \E createData \in ChatCreateInputs : CreateRoom(createData)
    \/ \E id \in ShortIds, joinData \in ChatJoinInputs : JoinRoom(id, joinData)
    \/ \E id \in ShortIds, participantId \in IdInputs : LeaveRoom(id, participantId)
    \/ \E c \in Sockets, id \in ShortIds, participantId \in Uuids :
          RoomJoin(c, id, participantId)
    \/ \E c \in Sockets, id \in ShortIds, participantId \in Uuids,
          content \in ContentInputs : MessageSend(c, id, participantId, content)

SpecChat == Init /\ [][NextChat]_vars

----------------------------------------------------------------------------
(* Two rooms side by side *)

BesideCreateInputs ==
    {[name |-> Name_a, capacity |-> Whole(2), password |-> Pw_abc,
      announcement |-> Undefined, creatorNickname |-> Nick_n]}
BesideJoinInputs == [nickname : {Nick_n}, password : {Pw_abc, Pw_xyz}]

\* createRoom while the registry holds at most one room more than elsewhere
CreateRoomBeside(createData) ==
    /\ Idle
    /\ Cardinality(DOMAIN rooms) < MaxRooms + 1
    /\ CreateRoomCall(createData)
    /\ UNCHANGED otherVars

GetRoomStats ==
    /\ Idle
    /\ GetRoomStatsCall
    /\ UNCHANGED otherVars

NextBeside ==
    \/ \E createData \in BesideCreateInputs : CreateRoomBeside(createData)
    \/ \E id \in ShortIds, joinData \in BesideJoinInputs : JoinRoom(id, joinData)
    \/ \E id \in ShortIds, participantId \in Uuids : LeaveRoom(id, participantId)
    \/ \E id \in ShortIds, operatorId \in Uuids : DissolveRoom(id, operatorId)
    \/ \E id \in ShortIds, operatorId \in Uuids, updateData \in UpdateInputs :
          UpdateRoom(id, operatorId, updateData)
    \/ GetRoomStats
    \/ Tick

SpecBeside == Init /\ [][NextBeside]_vars

----------------------------------------------------------------------------
(* The queries over a registry that earlier calls have filled *)

QueryRoomData(id) ==
    [name |-> IF id[1] = 1 THEN Name_a ELSE Name_b,
     capacity |-> Whole(defaultCapacity), password |-> Null,
     announcement |-> Str(<<>>), creatorId |-> AllocCreatorId(id),
     creatorNickname |-> Nick_n]

ListQueries ==
    [keyword : {Undefined, Name_a},
     status : {"", "waiting"},
     page : {Undefined, Str(<<"1">>), Str(<<"2">>)},
     pageSize : {Undefined, Str(<<"1">>), Str(<<"2">>)}]

\* the registry after createRoom calls at times of the clock so far
InitQueries ==
    /\ \E keys \in SUBSET RoomIds :
         \E born \in [keys -> 0..MaxTime] :
            rooms = [id \in keys |->
                        RepositoryCreate(<<>>, id, QueryRoomData(id), born[id])[id]]
    /\ uuids = 2 * NumIds
    /\ now = MaxTime
    /\ result = NoResult
    /\ dissolved = {}
    /\ pending = [c \in Clients |-> NoRequest]
    /\ responses = [c \in Clients |-> <<>>]
    /\ attempts = 0
    /\ roomId = <<>>
    /\ pc = "idle"
    /\ video = VideoState(NoVideoOptions, 0)
    /\ chat = NoChat

GetRoomList(query) ==
    /\ Idle
    /\ GetRoomListCall(query)
    /\ UNCHANGED otherVars

NextQueries ==
    \/ \E query \in ListQueries : GetRoomList(query)
    \/ GetRoomStats

SpecQueries == InitQueries /\ [][NextQueries]_vars

----------------------------------------------------------------------------
(* RoomRepository.search over the registries its callers can leave: rooms
   created, some given another status through Room.setStatus *)

Name_Ab == Str(<<"A", "b">>)

SearchRoomData(id, name, password) ==
    [name |-> name, capacity |-> Whole(defaultCapacity), password |-> password,
     announcement |-> Str(<<>>), creatorId |-> AllocCreatorId(id),
     creatorNickname |-> Nick_n]

SearchCriteria ==
    [keyword : {Undefined, Empty, Str(<<"a">>), Str(<<"B">>), Str(<<"a", "B">>),
                Str(<<"1", "0">>), Str(<<"2">>)},
     status : {"", "waiting", "playing"},
     hasPassword : {Undefined, Bool(TRUE), Bool(FALSE)}]

InitSearch ==
    /\ \E keys \in SUBSET ShortIds :
         \E name \in [keys -> {Name_a, Name_Ab}],
            password \in [keys -> {Null, Pw_abc}],
            status \in [keys -> RoomStatus] :
            rooms = [id \in keys |->
                        SetStatus(RepositoryCreate(<<>>, id,
                                      SearchRoomData(id, name[id], password[id]), 0)[id],
                                  status[id], 0)]
    /\ uuids = NumIds
    /\ now = 0
    /\ result = NoResult
    /\ dissolved = {}
    /\ pending = [c \in Clients |-> NoRequest]
    /\ responses = [c \in Clients |-> <<>>]
    /\ attempts = 0
    /\ roomId = <<>>
    /\ pc = "idle"
    /\ video = VideoState(NoVideoOptions, 0)
    /\ chat = NoChat

\* search(criteria): the array of the rooms found, as the set of their ids
SearchRooms(criteria) ==
    /\ Idle
    /\ result' = Res("search", "None", <<>>, <<Search(rooms, criteria)>>, <<criteria>>, TRUE)
    /\ UNCHANGED <<rooms, uuids, otherVars>>

NextSearch == \E criteria \in SearchCriteria : SearchRooms(criteria)

SpecSearch == InitSearch /\ [][NextSearch]_vars

----------------------------------------------------------------------------
(* The service on rooms behind a password: created with one, joined with
   one, given another by updateRoom, read by every query *)

SecretCreateInputs ==
    [name : {Name_a}, capacity : {Whole(2)}, password : {Undefined, Pw_abc, Pw_xyz},
     announcement : {Undefined}, creatorNickname : {Nick_n}]
SecretJoinInputs == [nickname : {Nick_n}, password : {Undefined, Pw_abc, Pw_xyz}]
SecretUpdateInputs ==
    {[NoUpdate EXCEPT !.password = p] : p \in {Empty, Pw_abc, Pw_xyz}}
      \cup {[NoUpdate EXCEPT !.name = Name_b]}
DefaultQuery ==
    [keyword |-> Undefined, status |-> "", page |-> Undefined, pageSize |-> Undefined]

NextSecret ==
    \/ \E createData \in SecretCreateInputs : CreateRoom(createData)
    \/ \E id \in ShortIds : GetRoomDetail(id)
    \/ \E id \in ShortIds, password \in PasswordInputs : VerifyRoomPassword(id, password)
    \/ \E id \in ShortIds, joinData \in SecretJoinInputs : JoinRoom(id, joinData)
    \/ \E id \in ShortIds, operatorId \in Uuids : DissolveRoom(id, operatorId)
    \/ \E id \in ShortIds, operatorId \in Uuids, updateData \in SecretUpdateInputs :
          UpdateRoom(id, operatorId, updateData)
    \/ GetRoomList(DefaultQuery)
    \/ GetRoomStats

SpecSecret == Init /\ [][NextSecret]_vars

----------------------------------------------------------------------------
(* Properties of the service *)

Creators(room) ==
    {i \in 1..Len(room.participants) : room.participants[i].role = "creator"}

Viewers(room) ==
    {i \in 1..Len(room.participants) : room.participants[i].role = "viewer"}

Size(room) == Len(room.participants)

ValidNickname(joinData) ==
    Truthy(joinData.nickname) /\ Trim(joinData.nickname.s) # <<>>

\* C1: in every room of the registry the number of participants is at most
\* the capacity, whatever createRoom, joinRoom and leaveRoom calls were made.
C1_SizeWithinCapacity ==
    \A id \in DOMAIN rooms : 2 * Size(rooms[id]) <= rooms[id].capacity.n

C3_LastSlotThenFull ==
    [][result'.op = "joinRoom" =>
        \A id \in DOMAIN rooms :
          LET room == rooms[id]
          IN  /\ Whole(Size(room) + 1) = room.capacity =>
                   \A joinData \in JoinInputs :
                     ( /\ ValidNickname(joinData)
                       /\ (HasPassword(room) => joinData.password = room.password)
                       /\ JoinRoom(id, joinData) )
                     => /\ result'.ok
                        /\ Whole(Size(rooms'[id])) = rooms'[id].capacity
                        /\ result'.room[1].currentCount = Size(room) + 1
              /\ Whole(Size(room)) = room.capacity =>
                   \A joinData \in JoinInputs :
                     JoinRoom(id, joinData)
                     => /\ result'.error = "RoomFull"
                        /\ rooms' = rooms]_vars

C3_Witness ==
    /\ result.op = "joinRoom" /\ result.error = "RoomFull"
    /\ \E id \in DOMAIN rooms :
          /\ Whole(Size(rooms[id])) = rooms[id].capacity
          /\ Viewers(rooms[id]) # {}

\* C7: dissolveRoom of an existing room by anyone but its creatorId fails with
\* PermissionDenied, changes no field of the room, and getRoom still returns it.
C7_DissolveByNonCreatorDenied ==
    [][result'.op = "dissolveRoom" =>
        \A id \in DOMAIN rooms, operatorId \in IdInputs :
          (operatorId # rooms[id].creatorId /\ DissolveRoom(id, operatorId))
          => /\ result'.error = "PermissionDenied"
             /\ rooms' = rooms
             /\ GetRoomDetailResult(rooms', id) = GetRoomDetailResult(rooms, id)
             /\ GetRoomDetailResult(rooms', id).ok]_vars

C7_Witness ==
    /\ result.op = "dissolveRoom" /\ result.error = "PermissionDenied"
    /\ \E id \in DOMAIN rooms : Size(rooms[id]) >= 2 /\ rooms[id].updateTime < now

\* C9: updateRoom of an existing room by anyone but its creatorId, a viewer of
\* the room included, fails with PermissionDenied and changes no field; a
\* step that changes the configuration of a room is the updateRoom of its
\* creatorId.
C9_UpdateByNonCreatorDenied ==
    [][/\ result'.op = "updateRoom" =>
            \A id \in DOMAIN rooms, operatorId \in IdInputs, updateData \in UpdateInputs :
              (operatorId # rooms[id].creatorId /\ UpdateRoom(id, operatorId, updateData))
              => /\ result'.error = "PermissionDenied"
                 /\ rooms' = rooms
       /\ \A id \in DOMAIN rooms \cap DOMAIN rooms' :
            ( <<rooms[id].name, rooms[id].capacity, rooms[id].password,
                rooms[id].announcement>>
              # <<rooms'[id].name, rooms'[id].capacity, rooms'[id].password,
                  rooms'[id].announcement>> )
            => \E updateData \in UpdateInputs :
                  UpdateRoom(id, rooms[id].creatorId, updateData)]_vars

C9_Witness ==
    /\ result.op = "updateRoom" /\ result.error = "PermissionDenied"
    /\ \E id \in DOMAIN rooms : Viewers(rooms[id]) # {}

\* C10: on a room of capacity 2 with password "abc" that holds one participant,
\* a joinRoom with another password fails with InvalidPassword and leaves the
\* count at 1; a joinRoom with "abc" succeeds and returns currentCount 2; on
\* the room holding two, a joinRoom fails with RoomFull.
C10_WrongThenRightThenFull ==
    [][result'.op = "joinRoom" =>
        \A id \in DOMAIN rooms :
          (rooms[id].capacity = Whole(2) /\ rooms[id].password = Pw_abc) =>
            \A joinData \in JoinInputs :
              JoinRoom(id, joinData) =>
                /\ (Size(rooms[id]) = 1 /\ joinData.password # Pw_abc)
                     => /\ result'.error = "InvalidPassword"
                        /\ rooms' = rooms
                        /\ GetRoomDetailResult(rooms', id).room[1].currentCount = 1
                /\ (Size(rooms[id]) = 1 /\ joinData.password = Pw_abc
                      /\ ValidNickname(joinData))
                     => /\ result'.ok
                        /\ result'.room[1].currentCount = 2
                        /\ result'.who[1].role = "viewer"
                /\ Size(rooms[id]) = 2
                     => /\ result'.error = "RoomFull"
                        /\ rooms' = rooms]_vars

C10_Witness ==
    /\ result.op = "joinRoom" /\ result.error = "RoomFull"
    /\ \E id \in DOMAIN rooms :
          /\ rooms[id].capacity = Whole(2)
          /\ rooms[id].password = Pw_abc
          /\ Size(rooms[id]) = 2
          /\ HasParticipant(rooms[id], rooms[id].creatorId)

\* C8 as claimed: once dissolveRoom has succeeded on an id, getRoom and every
\* join, leave, update, verifyPassword and dissolve on it fail with RoomNotFound
\* ever after.
C8_DissolvedStaysNotFound ==
    \A id \in dissolved :
        /\ GetRoomDetailResult(rooms, id).error = "RoomNotFound"
        /\ \A joinData \in JoinInputs : JoinRoomError(rooms, id, joinData) = "RoomNotFound"

\* C8 amended: a successful dissolveRoom removes the id from the registry; on an
\* id that is not in the registry getRoom, join, leave, update, verifyPassword
\* and dissolve fail with RoomNotFound and leave it absent; only a createRoom
\* that draws the id brings it back.
C8_NotFoundUntilIdIsDrawnAgain ==
    [][\A id \in RoomIds :
          /\ (result'.op = "dissolveRoom" /\ result'.ok /\ id \in dissolved' \ dissolved)
                => /\ id \in DOMAIN rooms /\ id \notin DOMAIN rooms'
                   /\ GetRoomDetailResult(rooms', id).error = "RoomNotFound"
          /\ (id \in dissolved' /\ id \notin DOMAIN rooms /\ result'.op # "createRoom")
                => ( ( \/ GetRoomDetail(id)
                       \/ \E joinData \in JoinInputs : JoinRoom(id, joinData)
                       \/ \E participantId \in IdInputs : LeaveRoom(id, participantId)
                       \/ \E operatorId \in IdInputs : DissolveRoomRecorded(id, operatorId)
                       \/ \E operatorId \in IdInputs, updateData \in UpdateInputs :
                             UpdateRoom(id, operatorId, updateData)
                       \/ \E password \in PasswordInputs :
                             VerifyRoomPassword(id, password) )
                     => ( /\ result'.error = "RoomNotFound"
                          /\ rooms' = rooms ) )
          /\ (id \in dissolved /\ id \notin DOMAIN rooms /\ id \in DOMAIN rooms')
                => /\ result'.op = "createRoom" /\ result'.ok
                   /\ result'.room[1].id = id]_vars

C8_Witness ==
    /\ result.op = "getRoomDetail" /\ result.error = "RoomNotFound"
    /\ dissolved # {}
    /\ rooms = <<>>

\* the calls of the callers in cs that have been answered
Answered(cs) == {c \in cs : responses[c] # <<>>}

JoinsOf(id) ==
    {c \in Clients :
        \/ pending[c].op = "joinRoom" /\ pending[c].id = id
        \/ responses[c] # <<>> /\ responses[c][1].request.op = "joinRoom"
                               /\ responses[c][1].request.id = id}

\* a join that passes the password and nickname checks of room
AcceptableJoin(room, c) ==
    LET body == responses[c][1].request.body
    IN  /\ ValidNickname([nickname |-> body.nickname])
        /\ HasPassword(room) => body.password = room.password

\* C4: when joinRoom calls issued together on a room that had exactly one
\* free slot have all been answered, in whatever order they were handled,
\* exactly one of the acceptable ones succeeded, every other one failed with
\* RoomFull, and the room holds capacity participants.
C4_OneFreeSlotOneWinner ==
    \A id \in DOMAIN rooms :
      LET room == rooms[id]
          joins == JoinsOf(id)
          ok == {c \in Answered(joins) : responses[c][1].result.ok}
          acceptable == {c \in Answered(joins) : AcceptableJoin(room, c)}
      IN  ( /\ room.createTime < now
            /\ Answered(joins) = joins
            /\ Cardinality(acceptable) >= 2
            /\ Whole(Size(room) - Cardinality(ok) + 1) = room.capacity )
          => /\ Cardinality(ok) = 1
             /\ ok \subseteq acceptable
             /\ \A c \in acceptable \ ok : responses[c][1].result.error = "RoomFull"
             /\ Whole(Size(room)) = room.capacity

C4_Witness ==
    \E id \in DOMAIN rooms :
      LET joins == JoinsOf(id)
      IN  /\ rooms[id].createTime < now
          /\ Answered(joins) = joins
          /\ Whole(Size(rooms[id])) = rooms[id].capacity
          /\ \E c, d \in joins :
                /\ c # d
                /\ AcceptableJoin(rooms[id], c) /\ AcceptableJoin(rooms[id], d)
                /\ responses[c][1].result.ok
                /\ responses[d][1].result.error = "RoomFull"

\* C5: in whatever order createRoom calls issued together are handled, a
\* successful one returns an id that was not a key of the registry, leaves
\* every room that was in the registry as it was, and its id differs from the
\* id returned to every other caller.
C5_ConcurrentCreatesDistinct ==
    [][\A c \in Clients :
          (HandleCreateRoom(c) /\ result'.ok) =>
            LET id == result'.room[1].id
            IN  /\ id \notin DOMAIN rooms
                /\ DOMAIN rooms' = DOMAIN rooms \cup {id}
                /\ \A k \in DOMAIN rooms : rooms'[k] = rooms[k]
                /\ rooms'[id].creatorId = result'.who[1].id
                /\ \A d \in Clients \ {c} :
                      ( /\ responses[d] # <<>>
                        /\ responses[d][1].request.op = "createRoom"
                        /\ responses[d][1].result.ok )
                      => responses[d][1].result.room[1].id # id]_vars

C5_Witness ==
    /\ Cardinality(DOMAIN rooms) >= 3
    /\ \A c \in Clients :
          /\ responses[c] # <<>>
          /\ responses[c][1].request.op = "createRoom"
          /\ responses[c][1].result.ok
    /\ \A c, d \in Clients :
          c # d => responses[c][1].result.room[1].id # responses[d][1].result.room[1].id

\* C6: the allocation of create draws at most 100 ids of the configured
\* length and then at most 100 ids of that length plus 2, after which it
\* gives up with AllocationExhausted: it never draws a 201st candidate.
C6_AllocationBounded == attempts <= 2 * maxAttempts

\* C13: whatever the video state was, right after setSource a read of the
\* current progress gives 0 and the status is paused.
C13_SetSourceResetsProgress ==
    [][\A source \in SourceInputs :
          VideoSetSource(source) =>
             /\ GetCurrentProgress(video', now') = Whole(0)
             /\ VideoStateToJSON(video', now').currentProgress = Whole(0)
             /\ video'.status = "paused"]_vars

C13_Witness ==
    /\ result.op = "setSource"
    /\ video.lastUpdateTime > 0
    /\ video.playbackRate = Whole(2)
    /\ video.progress = Whole(0)

\* C14: setStatus(paused) on a playing video state stores as progress the
\* progress derived at that moment, p + r*t, before the status changes.
C14_PauseCheckpointsProgress ==
    [][(video.status = "playing" /\ VideoStateSetStatus("paused"))
         => video'.progress = GetCurrentProgress(video, now)]_vars

\* C15: a read gives progress + (now - lastUpdateTime) * playbackRate while
\* the status is playing and the stored progress otherwise, it leaves the
\* stored state as it was, and while the status is paused or stopped the
\* value read does not move with the clock.
C15_CurrentProgressDerived ==
    [][/\ VideoToJSON =>
            /\ result'.room[1].currentProgress =
                  IF video.status = "playing"
                  THEN Num(video.progress.n
                           + ((now - video.lastUpdateTime) * video.playbackRate.n) \div 1000)
                  ELSE video.progress
            /\ video' = video
       /\ (VideoTick /\ video.status # "playing") =>
            GetCurrentProgress(video', now') = GetCurrentProgress(video, now)]_vars

C15_Witness ==
    /\ result.op = "toJSON"
    /\ video.status = "playing"
    /\ now > video.lastUpdateTime
    /\ result.room[1].currentProgress.n > video.progress.n
    /\ result.room[1].progress = video.progress

\* C11: verifyPassword on a room without a password (null or '') accepts
\* every candidate, the empty string and an absent one included; on a room
\* with a password it accepts exactly the candidate equal to the stored
\* password; it never changes the room.
C11_PasswordValidation ==
    [][result'.op = "verifyRoomPassword" =>
        \A id \in DOMAIN rooms, password \in PasswordInputs :
          VerifyRoomPassword(id, password) =>
            LET accepted == \/ rooms[id].password \in {Null, Empty}
                            \/ rooms[id].password = password
            IN  /\ result'.ok = accepted
                /\ ValidatePassword(rooms[id], password) = accepted
                /\ ~accepted => result'.error = "InvalidPassword"
                /\ rooms' = rooms]_vars

C11_Witness ==
    /\ result.op = "verifyRoomPassword" /\ result.ok
    /\ \E id \in DOMAIN rooms : rooms[id].password = Empty

\* the part of C12 about the roster: a step that adds a participant to a
\* room that has a password is a joinRoom carrying that password
GatedAdmissionsCarryPassword ==
    \A id \in DOMAIN rooms \cap DOMAIN rooms' :
      (HasPassword(rooms[id]) /\ Size(rooms'[id]) > Size(rooms[id]))
      => \E joinData \in JoinInputs :
            joinData.password = rooms[id].password /\ JoinRoom(id, joinData)

\* C12 as claimed: a joinRoom on a room with a password, carrying another
\* password or none, fails with InvalidPassword and adds no participant; every
\* admission to such a room carried the room's password.
C12_WrongPasswordIsInvalidPassword ==
    [][/\ result'.op = "joinRoom" =>
            \A id \in DOMAIN rooms, joinData \in JoinInputs :
              ( /\ HasPassword(rooms[id])
                /\ joinData.password # rooms[id].password
                /\ JoinRoom(id, joinData) )
              => /\ result'.error = "InvalidPassword"
                 /\ rooms' = rooms
       /\ GatedAdmissionsCarryPassword]_vars

\* C12 amended: such a joinRoom adds no participant and draws no token; it
\* fails with InvalidPassword when the room has a free slot and with RoomFull
\* when the roster has reached the capacity, the capacity being checked
\* first; every admission to a room with a password carried that password.
C12_WrongPasswordNeverAdmitted ==
    [][/\ result'.op = "joinRoom" =>
            \A id \in DOMAIN rooms, joinData \in JoinInputs :
              ( /\ HasPassword(rooms[id])
                /\ joinData.password # rooms[id].password
                /\ JoinRoom(id, joinData) )
              => /\ result'.error =
                      IF SizeGE(Size(rooms[id]), rooms[id].capacity)
                      THEN "RoomFull" ELSE "InvalidPassword"
                 /\ rooms' = rooms
                 /\ uuids' = uuids
       /\ GatedAdmissionsCarryPassword]_vars

C12_Witness ==
    /\ result.op = "joinRoom" /\ result.error = "InvalidPassword"
    /\ \E id \in DOMAIN rooms :
          /\ HasPassword(rooms[id])
          /\ Viewers(rooms[id]) # {}

\* the bounds of config.room on the four configurable fields of a room
NameWithinBounds(v) ==
    IsString(v) /\ Len(v.s) >= nameMinLength /\ Len(v.s) <= nameMaxLength

CapacityWithinBounds(v) ==
    /\ IsNumber(v)
    /\ v.n % 2 = 0
    /\ v.n >= Whole(minCapacity).n
    /\ v.n <= Whole(maxCapacity).n

PasswordWithinBounds(v) ==
    v = Null \/ (IsString(v) /\ Len(v.s) <= passwordMaxLength)

AnnouncementWithinBounds(v) ==
    IsString(v) /\ Len(v.s) <= announcementMaxLength

\* the fields of a createRoom body that break a bound
CreateViolations(data) ==
    {f \in {"name"} : ~(IsString(data.name) /\ NameWithinBounds(Str(Trim(data.name.s))))}
    \cup {f \in {"capacity"} :
            data.capacity # Undefined /\ ~CapacityWithinBounds(data.capacity)}
    \cup {f \in {"password"} :
            data.password # Undefined /\ ~PasswordWithinBounds(data.password)}
    \cup {f \in {"announcement"} :
            data.announcement # Undefined /\ ~AnnouncementWithinBounds(data.announcement)}
    \cup {f \in {"creatorNickname"} :
            ~(IsString(data.creatorNickname) /\ Trim(data.creatorNickname.s) # <<>>)}

\* the fields of an updateRoom body that break a bound
UpdateViolations(data) ==
    {f \in {"name"} : data.name # Undefined /\ ~NameWithinBounds(data.name)}
    \cup {f \in {"capacity"} :
            data.capacity # Undefined /\ ~CapacityWithinBounds(data.capacity)}
    \cup {f \in {"password"} :
            data.password # Undefined /\ ~PasswordWithinBounds(data.password)}
    \cup {f \in {"announcement"} :
            data.announcement # Undefined /\ ~AnnouncementWithinBounds(data.announcement)}

\* C16: every room of the registry has a name of 1..50 characters, an
\* integer capacity in 2..100, a password of at most 20 characters and an
\* announcement of at most 500, whatever createRoom and updateRoom calls were
\* made.
C16_FieldBoundsHold ==
    \A id \in DOMAIN rooms :
        /\ NameWithinBounds(rooms[id].name)
        /\ CapacityWithinBounds(rooms[id].capacity)
        /\ PasswordWithinBounds(rooms[id].password)
        /\ AnnouncementWithinBounds(rooms[id].announcement)

\* C17: an updateRoom on a room whose roster is within the capacity leaves
\* the roster within the capacity.
C17_UpdateKeepsSizeWithinCapacity ==
    [][result'.op = "updateRoom" =>
        \A id \in DOMAIN rooms \cap DOMAIN rooms' :
          2 * Size(rooms[id]) <= rooms[id].capacity.n
          => 2 * Size(rooms'[id]) <= rooms'[id].capacity.n]_vars

\* C18: an updateRoom by the creator whose body has a field that breaks a
\* bound fails with ValidationFailed and leaves the room, updateTime included,
\* as it was.
C18_InvalidUpdateWritesNothing ==
    [][result'.op = "updateRoom" =>
        \A id \in DOMAIN rooms, updateData \in ConfigInputs :
          ( /\ UpdateViolations(updateData) # {}
            /\ UpdateRoom(id, rooms[id].creatorId, updateData) )
          => /\ result'.error = "ValidationFailed"
             /\ rooms' = rooms]_vars

\* C19: a createRoom whose body breaks a bound fails with ValidationFailed,
\* the errors name exactly the fields that break one, no room is stored and
\* no token is drawn.
C19_CreateReportsEveryViolation ==
    [][result'.op = "createRoom" =>
        \A createData \in ConfigCreateInputs :
          (CreateViolations(createData) # {} /\ CreateRoom(createData))
          => /\ result'.error = "ValidationFailed"
             /\ {result'.errors[i] : i \in 1..Len(result'.errors)}
                   = CreateViolations(createData)
             /\ Len(result'.errors) = Cardinality(CreateViolations(createData))
             /\ rooms' = rooms
             /\ uuids' = uuids]_vars

\* C20: an updateRoom by the creator succeeds and writes exactly the fields
\* its body has among name, capacity, password and announcement; the other
\* ones of the four, and id, creatorId, status, createTime, the roster and
\* the video state, keep their values, and no other room is touched.
C20_UpdateWritesOnlyGivenFields ==
    [][result'.op = "updateRoom" =>
        \A id \in DOMAIN rooms, updateData \in ConfigInputs :
          UpdateRoom(id, rooms[id].creatorId, updateData) =>
            LET old == rooms[id]
                new == rooms'[id]
                written(given, before) == IF given # Undefined THEN given ELSE before
            IN  /\ result'.ok
                /\ DOMAIN rooms' = DOMAIN rooms
                /\ \A k \in DOMAIN rooms \ {id} : rooms'[k] = rooms[k]
                /\ new.name = written(updateData.name, old.name)
                /\ new.capacity = written(updateData.capacity, old.capacity)
                /\ new.password = written(updateData.password, old.password)
                /\ new.announcement = written(updateData.announcement, old.announcement)
                /\ new.id = old.id
                /\ new.creatorId = old.creatorId
                /\ new.status = old.status
                /\ new.createTime = old.createTime
                /\ new.participants = old.participants
                /\ new.videoState = old.videoState]_vars

C20_Witness ==
    /\ result.op = "updateRoom" /\ result.ok
    /\ \E id \in DOMAIN rooms :
          /\ rooms[id].name = Name_b
          /\ rooms[id].password = Pw_abc
          /\ rooms[id].announcement = Note_x
          /\ Viewers(rooms[id]) # {}
          /\ rooms[id].updateTime > rooms[id].createTime

\* C21: when the creator's updateRoom sets the password of a gated room to
\* the empty string, the room has no password afterwards, every candidate
\* validates, and a join without a password is refused for capacity alone;
\* a join without a password into such a room with a free slot is admitted.
C21_EmptyPasswordClearsGate ==
    [][/\ (result'.op = "updateRoom" /\ result'.ok) =>
            \A id \in DOMAIN rooms :
              (/\ HasPassword(rooms[id])
               /\ UpdateRoom(id, rooms[id].creatorId,
                             [NoUpdate EXCEPT !.password = Empty])) =>
                 LET room == rooms'[id]
                 IN  /\ room.password = Empty
                     /\ ~HasPassword(room)
                     /\ \A password \in PasswordInputs :
                           ValidatePassword(room, password)
                     /\ \A joinData \in JoinInputs :
                           (joinData.password = Undefined
                              /\ ValidNickname(joinData)) =>
                             JoinRoomError(rooms', id, joinData) =
                               IF IsFull(room) THEN "RoomFull" ELSE "None"
       /\ result'.op = "joinRoom" =>
            \A id \in DOMAIN rooms, joinData \in JoinInputs :
              (/\ rooms[id].password = Empty
               /\ joinData.password = Undefined
               /\ ValidNickname(joinData)
               /\ ~IsFull(rooms[id])
               /\ JoinRoom(id, joinData)) =>
                 /\ result'.ok
                 /\ Size(rooms'[id]) = Size(rooms[id]) + 1]_vars

C21_Witness ==
    /\ result.op = "joinRoom" /\ result.ok
    /\ \E id \in DOMAIN rooms :
          /\ rooms[id].password = Empty
          /\ Viewers(rooms[id]) # {}

\* C22: no room of the registry is closed: a successful dissolveRoom closes
\* the room and takes it out of the registry in the same step, so no
\* joinRoom, updateRoom or dissolveRoom ever finds a closed room.
C22_NoClosedRoomInRegistry ==
    [][/\ \A id \in DOMAIN rooms' : rooms'[id].status # "closed"
       /\ result'.error # "RoomClosed"
       /\ (result'.op = "dissolveRoom" /\ result'.ok) =>
            \E id \in DOMAIN rooms :
              /\ DissolveRoomRecorded(id, rooms[id].creatorId)
              /\ rooms[id].status # "closed"
              /\ DOMAIN rooms' = DOMAIN rooms \ {id}
              /\ GetRoomDetailResult(rooms', id).error = "RoomNotFound"
              /\ JoinRoomError(rooms', id,
                     [nickname |-> Nick_n, password |-> rooms[id].password])
                   = "RoomNotFound"]_vars

C22_Witness ==
    /\ result.op = "dissolveRoom" /\ result.ok
    /\ dissolved # {}
    /\ \A id \in dissolved : ~Exists(rooms, id)
    /\ uuids > 1

\* C23: the status of a Room only moves toward closed: once it is closed,
\* no setStatus, updateConfig, addParticipant, removeParticipant or close
\* makes it waiting or playing again.
C23_ClosedStaysClosed ==
    [][\A id \in DOMAIN rooms :
          rooms[id].status = "closed" => rooms'[id].status = "closed"]_vars

\* C24: a room is kept under its own id, and no call changes the id or the
\* creatorId of a room it leaves in the registry: not a join, a leave, a
\* refused call, nor an updateRoom whose body has fields named id and
\* creatorId; a created room takes the token issued to its creator.
C24_IdAndCreatorIdFixed ==
    [][/\ \A k \in DOMAIN rooms' : rooms'[k].id = k
       /\ \A k \in DOMAIN rooms \cap DOMAIN rooms' :
            /\ rooms'[k].id = rooms[k].id
            /\ rooms'[k].creatorId = rooms[k].creatorId
       /\ (result'.op = "createRoom" /\ result'.ok) =>
            \A k \in DOMAIN rooms' \ DOMAIN rooms : rooms'[k].creatorId = uuids']_vars

C24_Witness ==
    /\ result.op = "updateRoom" /\ result.ok
    /\ \E k \in DOMAIN rooms :
          /\ rooms[k].name = Name_b
          /\ rooms[k].creatorId # 2
          /\ HasParticipant(rooms[k], 2)

\* C25: the step of a successful createRoom that makes the room retrievable
\* also admits its creator: the new room's roster is exactly one participant,
\* with the room's creatorId as id, role creator and status online, and the
\* detail read of the new room reports currentCount 1.
C25_CreatedWithCreator ==
    [][(result'.op = "createRoom" /\ result'.ok /\ uuids' # uuids) =>
          /\ DOMAIN rooms' \ DOMAIN rooms # {}
          /\ \A id \in DOMAIN rooms' \ DOMAIN rooms :
               LET room == rooms'[id]
                   detail == GetRoomDetailResult(rooms', id)
               IN  /\ Len(room.participants) = 1
                   /\ room.participants[1].id = room.creatorId
                   /\ room.participants[1].id = result'.who[1].id
                   /\ room.participants[1].role = "creator"
                   /\ room.participants[1].status = "online"
                   /\ room.status = "waiting"
                   /\ detail.ok
                   /\ detail.room[1].currentCount = 1
                   /\ detail.room[1].participants[1].id = room.creatorId
                   /\ result'.room[1].currentCount = 1]_vars

C25_Witness ==
    /\ result.op = "createRoom" /\ result.ok
    /\ \E id \in DOMAIN rooms :
          /\ Size(rooms[id]) = 1
          /\ Creators(rooms[id]) = {1}
          /\ rooms[id].participants[1].id = rooms[id].creatorId
          /\ rooms[id].createTime = now
          /\ now > 0

\* C27: a room:join succeeds exactly when the room exists and the participant
\* is in its roster; a message:send succeeds exactly when the room exists, is
\* not closed, the participant is in its roster and the content is a string
\* of 1 to 200 characters once trimmed.  A refused call answers with an error
\* and changes nothing: no channel is joined and nothing is broadcast.  An
\* accepted message is broadcast once, to the room's channel, trimmed, under
\* the sender's roster entry and the server's time.
C27_ChatGatedByRoster ==
    [][/\ result'.op = "room:join" =>
            \A c \in Sockets, id \in ShortIds, participantId \in Uuids :
              RoomJoinCall(c, id, participantId) =>
                /\ result'.ok <=>
                     (Exists(rooms, id) /\ HasParticipant(rooms[id], participantId))
                /\ result'.ok => <<c, id>> \in chat'.channels
                /\ ~result'.ok => (chat' = chat /\ result'.error # "None")
                /\ chat'.broadcast = chat.broadcast
       /\ result'.op = "message:send" =>
            \A c \in Sockets, id \in ShortIds, participantId \in Uuids,
               content \in ContentInputs :
              (/\ result'.error = SendMessageError(rooms, id, participantId, content)
               /\ MessageSendCall(c, id, participantId, content)) =>
                LET allowed ==
                      /\ Exists(rooms, id)
                      /\ rooms[id].status # "closed"
                      /\ HasParticipant(rooms[id], participantId)
                      /\ IsString(content)
                      /\ Len(Trim(content.s)) \in 1..messageMaxLength
                    sent == chat'.broadcast[Len(chat'.broadcast)]
                IN  /\ result'.ok <=> allowed
                    /\ ~result'.ok => (chat' = chat /\ result'.error # "None")
                    /\ result'.ok =>
                         /\ Len(chat'.broadcast) = Len(chat.broadcast) + 1
                         /\ SubSeq(chat'.broadcast, 1, Len(chat.broadcast)) = chat.broadcast
                         /\ sent.channel = id
                         /\ sent.message.roomId = id
                         /\ sent.message.from.participantId = participantId
                         /\ sent.message.content = Str(Trim(content.s))
                         /\ sent.message.sentAt = now
                         /\ chat'.channels = chat.channels]_vars

C27_Witness ==
    /\ result.op = "message:send" /\ result.ok
    /\ chat.broadcast # <<>>
    /\ chat.broadcast[1].to # {}
    /\ chat.broadcast[1].message.from.role = "viewer"
    /\ Len(chat.broadcast[1].message.content.s) = messageMaxLength
    /\ \E id \in DOMAIN rooms : ~HasParticipant(rooms[id], rooms[id].creatorId)

\* C26: a joinRoom, leaveRoom, updateRoom or dissolveRoom addressed to one
\* room id leaves every room kept under another id as it was, in the registry
\* and with the same roster, configuration, status and times; so does a
\* createRoom for the rooms that were there.
C26_OtherRoomsUntouched ==
    [][LET others(id) ==
             \A other \in DOMAIN rooms \ {id} :
               /\ other \in DOMAIN rooms'
               /\ rooms'[other] = rooms[other]
       IN  /\ result'.op = "joinRoom" =>
                \A id \in ShortIds :
                  (\E joinData \in BesideJoinInputs : JoinRoomCall(id, joinData))
                    => others(id)
           /\ result'.op = "leaveRoom" =>
                \A id \in ShortIds :
                  (\E participantId \in Uuids : LeaveRoomCall(id, participantId))
                    => others(id)
           /\ result'.op = "dissolveRoom" =>
                \A id \in ShortIds :
                  (\E operatorId \in Uuids : DissolveRoomCall(id, operatorId))
                    => others(id)
           /\ result'.op = "updateRoom" =>
                \A id \in ShortIds :
                  (\E operatorId \in Uuids, updateData \in UpdateInputs :
                      UpdateRoomCall(id, operatorId, updateData))
                    => others(id)
           /\ (result'.op = "createRoom" /\ uuids' # uuids) =>
                \A id \in DOMAIN rooms' \ DOMAIN rooms : others(id)]_vars

C26_Witness ==
    /\ Cardinality(DOMAIN rooms) = 2
    /\ result.op = "joinRoom" /\ result.ok
    /\ now > 0
    /\ \E id \in DOMAIN rooms, other \in DOMAIN rooms :
          /\ id # other
          /\ rooms[id].updateTime = now
          /\ rooms[id].name = Name_b
          /\ Size(rooms[id]) = 2
          /\ rooms[other].updateTime = 0
          /\ Size(rooms[other]) = 1

\* C28: in every state the statistics count the rooms of the registry that
\* are not closed, the participants of those rooms, and those of them that
\* are waiting and playing, and totalRooms = waitingRooms + playingRooms;
\* what getRoomStats returned describes the registry as it is.
C28_StatsCountOpenRooms ==
    LET open == {id \in DOMAIN rooms : rooms[id].status # "closed"}
        stats == RoomStats(rooms)
    IN  /\ stats.totalRooms = Cardinality(open)
        /\ stats.totalParticipants =
             Cardinality({pair \in open \X Uuids :
                            HasParticipant(rooms[pair[1]], pair[2])})
        /\ stats.waitingRooms =
             Cardinality({id \in open : rooms[id].status = "waiting"})
        /\ stats.playingRooms =
             Cardinality({id \in open : rooms[id].status = "playing"})
        /\ stats.totalRooms = stats.waitingRooms + stats.playingRooms
        /\ result.op = "getRoomStats" => (result.ok /\ result.who = <<stats>>)

C28_Witness ==
    /\ result.op = "getRoomStats"
    /\ result.who[1].totalRooms = 2
    /\ result.who[1].totalParticipants = 3
    /\ result.who[1].waitingRooms = 2
    /\ dissolved = {}
    /\ uuids = MaxUuid

\* C29: for a page p >= 1 and a page size s >= 1 of the query string, the
\* list of getRoomList holds the entries at positions (p-1)*s .. p*s-1 of the
\* matching rooms sorted by creation time, newest first, and never more than
\* s entries; total is the number of matching rooms and totalPages the
\* number of pages of s entries they fill.
C29_ListIsOnePage ==
    [][result'.op = "getRoomList" =>
        \A query \in ListQueries :
          GetRoomList(query) =>
            LET p == IF query.page = Undefined THEN 1 ELSE DecimalOf(query.page.s)
                s == IF query.pageSize = Undefined THEN 20
                     ELSE DecimalOf(query.pageSize.s)
                found == Search(rooms, [keyword |-> query.keyword,
                                        status |-> query.status,
                                        hasPassword |-> Undefined])
                total == Cardinality(found)
                last == IF p * s < total THEN p * s ELSE total
            IN  /\ Len(result'.room) <= s
                /\ \E sorted \in SortedByCreateTime(rooms, found) :
                      LET entries == SubSeq(sorted, (p - 1) * s + 1, last)
                      IN  result'.room =
                            [i \in DOMAIN entries |-> ToListJSON(rooms[entries[i]])]
                /\ result'.who[1].page = p
                /\ result'.who[1].pageSize = s
                /\ result'.who[1].total = total
                /\ result'.who[1].totalPages = Ceil(total, s)]_vars

\* C30: a leaveRoom for an id that is not in the roster returns false and
\* leaves the room, its roster and updateTime as they were.  The creator's
\* own leaveRoom takes the creator out of the roster and keeps creatorId, so
\* an updateRoom or dissolveRoom by creatorId succeeds afterwards as well.
C30_LeaveKeepsCreatorRights ==
    [][/\ result'.op = "leaveRoom" =>
            \A id \in DOMAIN rooms, participantId \in IdInputs :
              LeaveRoom(id, participantId) =>
                IF ~HasParticipant(rooms[id], participantId)
                THEN /\ ~result'.ok
                     /\ result'.error = "None"
                     /\ rooms' = rooms
                ELSE /\ result'.ok
                     /\ ~HasParticipant(rooms'[id], participantId)
                     /\ Size(rooms'[id]) = Size(rooms[id]) - 1
                     /\ rooms'[id].creatorId = rooms[id].creatorId
       /\ result'.op = "updateRoom" =>
            \A id \in DOMAIN rooms, updateData \in UpdateInputs :
              (/\ ~HasParticipant(rooms[id], rooms[id].creatorId)
               /\ UpdateRoom(id, rooms[id].creatorId, updateData)) =>
                 /\ result'.ok
                 /\ rooms'[id].creatorId = rooms[id].creatorId
       /\ result'.op = "dissolveRoom" =>
            \A id \in DOMAIN rooms :
              (/\ ~HasParticipant(rooms[id], rooms[id].creatorId)
               /\ DissolveRoom(id, rooms[id].creatorId)) =>
                 /\ result'.ok
                 /\ ~Exists(rooms', id)]_vars

C30_Witness ==
    /\ result.op = "updateRoom" /\ result.ok
    /\ \E id \in DOMAIN rooms :
          /\ ~HasParticipant(rooms[id], rooms[id].creatorId)
          /\ rooms[id].name = Name_b
          /\ rooms[id].updateTime > rooms[id].createTime

\* C31: addParticipant for an id that is already in the roster succeeds even
\* when the room is full, leaves the size of the roster as it was, and keeps
\* the role and the joinTime of that participant.
C31_ReadmitKeepsRoleAndJoinTime ==
    [][result'.op = "Room.addParticipant" =>
        \A data \in RoomParticipantInputs :
          (/\ HasParticipant(rooms[SeedId], data.id)
           /\ RoomAddParticipant(data)) =>
             LET before == GetParticipant(rooms[SeedId], data.id)[1]
                 after == GetParticipant(rooms'[SeedId], data.id)[1]
             IN  /\ result'.ok
                 /\ Size(rooms'[SeedId]) = Size(rooms[SeedId])
                 /\ after.role = before.role
                 /\ after.joinTime = before.joinTime]_vars

\* C32: from a new video state, progress >= 0 and 0 < playbackRate <= 4 in
\* every state, whatever setSource, setStatus, setProgress and
\* setPlaybackRate calls are made; a setPlaybackRate with a rate <= 0 or > 4
\* and a setStatus with a value that is no play status change no field, the
\* checkpoint included; setProgress(p) stores max(0, p).
C32_VideoFieldsWithinRange ==
    [][/\ video.progress.n >= 0
       /\ video.playbackRate.n > 0 /\ video.playbackRate.n <= Whole(4).n
       /\ video'.progress.n >= 0
       /\ video'.playbackRate.n > 0 /\ video'.playbackRate.n <= Whole(4).n
       /\ result'.op = "setPlaybackRate" =>
            \A rate \in RateInputs :
              (/\ VideoSetPlaybackRate(rate)
               /\ (rate.n <= 0 \/ rate.n > Whole(4).n)) => video' = video
       /\ result'.op = "setStatus" =>
            \A status \in StatusInputs \ PlayStatus :
              VideoStateSetStatus(status) => video' = video
       /\ result'.op = "setProgress" =>
            \A progress \in ProgressInputs :
              VideoSetProgress(progress) =>
                /\ video'.progress = IF progress.n >= 0 THEN progress ELSE Whole(0)
                /\ video'.lastUpdateTime = now]_vars

C32_Witness ==
    /\ result.op = "setPlaybackRate"
    /\ video.playbackRate = Whole(4)
    /\ video.progress = Num(3)
    /\ video.status = "playing"
    /\ video.lastUpdateTime > 0

\* C33: updateTime is set to the current time by exactly the successful
\* structural mutations (a join that admits, a leave that removes, an update,
\* a close); reads and failed operations leave it alone; it never decreases
\* and is never earlier than createTime.
C33_UpdateTimeOnMutationOnly ==
    [][\A id \in DOMAIN rooms :
         /\ rooms[id].createTime <= rooms[id].updateTime
         /\ rooms[id].updateTime <= now
         /\ Close(rooms[id], now).updateTime = now
         /\ id \in DOMAIN rooms' =>
              /\ rooms[id].updateTime <= rooms'[id].updateTime
              /\ rooms'[id].createTime = rooms[id].createTime
              /\ (\/ now' # now
                  \/ ~result'.ok
                  \/ result'.op \notin {"joinRoom", "leaveRoom", "updateRoom"})
                   => rooms'[id].updateTime = rooms[id].updateTime
              /\ (\/ /\ result'.op = "joinRoom"
                     /\ \E joinData \in JoinInputs : JoinRoom(id, joinData)
                  \/ /\ result'.op = "leaveRoom"
                     /\ \E participantId \in IdInputs : LeaveRoom(id, participantId)
                  \/ /\ result'.op = "updateRoom"
                     /\ \E operatorId \in IdInputs, updateData \in UpdateInputs :
                          UpdateRoom(id, operatorId, updateData))
                   => /\ rooms'[id].updateTime =
                           IF result'.ok THEN now ELSE rooms[id].updateTime
                      /\ \A other \in DOMAIN rooms \ {id} :
                           /\ other \in DOMAIN rooms'
                           /\ rooms'[other].updateTime = rooms[other].updateTime]_vars

C33_Witness ==
    /\ result.op = "leaveRoom" /\ result.ok
    /\ \E id \in DOMAIN rooms :
         /\ rooms[id].createTime < rooms[id].updateTime
         /\ rooms[id].updateTime = now

\* the two characters are one letter, whatever their case
SameLetter(x, y) == ToLowerCase(<<x>>) = ToLowerCase(<<y>>)

\* part occurs in chars when case is set aside
OccursIgnoringCase(chars, part) ==
    \E i \in 0..(Len(chars) - Len(part)) :
       \A k \in 1..Len(part) : SameLetter(chars[i + k], part[k])

C35_JoinReportsFirstFailure ==
    [][/\ \A id \in DOMAIN rooms, joinData \in JoinInputs :
            JoinRoomError([rooms EXCEPT ![id] = Close(@, now)], id, joinData)
              = "RoomClosed"
       /\ result'.op = "joinRoom" =>
            \A id \in RoomIds, joinData \in JoinInputs :
              JoinRoom(id, joinData) =>
                LET expected ==
                      IF id \notin DOMAIN rooms THEN "RoomNotFound"
                      ELSE IF rooms[id].status = "closed" THEN "RoomClosed"
                      ELSE IF 2 * Len(rooms[id].participants) >= rooms[id].capacity.n
                           THEN "RoomFull"
                      ELSE IF /\ rooms[id].password \notin {Null, Empty}
                              /\ joinData.password # rooms[id].password
                           THEN "InvalidPassword"
                      ELSE IF joinData.nickname = Blank THEN "ValidationFailed"
                      ELSE "None"
                IN  /\ result'.error = expected
                    /\ result'.ok <=> expected = "None"
                    /\ expected # "None" => rooms' = rooms /\ uuids' = uuids
                    /\ expected = "None" =>
                         /\ uuids' = uuids + 1
                         /\ Len(rooms'[id].participants)
                              = Len(rooms[id].participants) + 1]_vars

C35_Witness ==
    /\ result.op = "joinRoom" /\ result.error = "RoomFull"
    /\ \E id \in DOMAIN rooms :
         /\ rooms[id].password = Pw_abc
         /\ Len(rooms[id].participants) = 2
         /\ rooms[id].capacity = Whole(2)

\* C36: while the status stays playing and neither setSource nor setProgress
\* is called, the progress read never decreases as the clock moves on: a
\* setPlaybackRate with a valid rate or a repeated setStatus(playing) keeps
\* the time played since the last checkpoint.
C36_PlayingProgressNeverDecreases ==
    [][(/\ video.status = "playing"
        /\ \/ VideoStateSetStatus("playing")
           \/ \E rate \in RateInputs : VideoSetPlaybackRate(rate)
           \/ VideoToJSON
           \/ VideoTick)
         => GetCurrentProgress(video', now').n >= GetCurrentProgress(video, now).n]_vars

\* C37 as claimed: once a room with id X has been dissolved no later
\* createRoom returns X, so a stale X never reaches a newer room.
C37_DissolvedIdNeverReturned ==
    [][(result'.op = "createRoom" /\ result'.ok /\ uuids' # uuids)
         => result'.room[1].id \notin dissolved]_vars

\* C37 amended: a successful dissolveRoom frees the id, and createRoom returns
\* an id that is not a key of the registry at that moment, which may be the
\* id of a dissolved room; the room made is a new one, held by the new
\* creator alone, and getRoom and joinRoom with the stale id reach it.
C37_IdFreeAfterDissolve ==
    [][/\ (result'.op = "dissolveRoom" /\ result'.ok) =>
            \A id \in dissolved' \ dissolved :
               /\ id \notin DOMAIN rooms'
               /\ id \in ShortIds => id \in GenerateUniqueRoomId(rooms')
       /\ (result'.op = "createRoom" /\ result'.ok /\ uuids' # uuids) =>
            LET id == result'.room[1].id
            IN  /\ id \notin DOMAIN rooms
                /\ id \in DOMAIN rooms'
                /\ rooms'[id].creatorId = uuids'
                /\ rooms'[id].createTime = now
                /\ Len(rooms'[id].participants) = 1
                /\ rooms'[id].participants[1].id = uuids'
                /\ id \in dissolved =>
                     /\ GetRoomDetailResult(rooms', id).ok
                     /\ GetRoomDetailResult(rooms', id).room[1].creatorId = uuids'
                     /\ \A joinData \in JoinInputs :
                          JoinRoomError(rooms', id, joinData) # "RoomNotFound"]_vars

C37_Witness ==
    /\ result.op = "createRoom" /\ result.ok
    /\ result.room[1].id \in dissolved
    /\ result.room[1].id \in DOMAIN rooms
    /\ rooms[result.room[1].id].creatorId > 1

\* C38: a message of a room is delivered only to sockets whose participant is
\* on the room's roster at that moment: after leaveRoom a socket that joined
\* the room's channel for that participant gets no further message:new.
C38_BroadcastOnlyToMembers ==
    [][(/\ result'.op = "message:send" /\ result'.ok
        /\ Len(chat'.broadcast) = Len(chat.broadcast) + 1) =>
          LET sent == chat'.broadcast[Len(chat'.broadcast)]
          IN  \A s \in sent.to :
                /\ chat.data[s].roomId = sent.channel
                /\ HasParticipant(rooms[sent.channel], chat.data[s].participantId)]_vars

\* the other of the two passwords; anything else as it is
OtherPassword(v) == IF v = Pw_abc THEN Pw_xyz ELSE IF v = Pw_xyz THEN Pw_abc ELSE v

\* the registry of the run in which every password given was the other one
Twin(registry) ==
    [id \in DOMAIN registry |-> [registry[id] EXCEPT !.password = OtherPassword(@)]]

\* C39: the value of a room's password reaches no result.  Of two runs that
\* differ only in the password given at createRoom and updateRoom (and give
\* the matching one at joinRoom and verifyPassword), each call returns the
\* same result in both and leaves registries that differ in the passwords
\* alone: createRoom, getRoom, listRooms, joinRoom, updateRoom, stats and the
\* outcome of the password check are the same.
C39_PasswordReachesNoResult ==
    [][/\ \A id \in ShortIds :
            GetRoomDetailResult(Twin(rooms), id) = GetRoomDetailResult(rooms, id)
       /\ GetRoomListResults(Twin(rooms),
               [keyword |-> Undefined, status |-> "", page |-> Whole(1),
                pageSize |-> Whole(20)])
            = GetRoomListResults(rooms,
               [keyword |-> Undefined, status |-> "", page |-> Whole(1),
                pageSize |-> Whole(20)])
       /\ RoomStats(Twin(rooms)) = RoomStats(rooms)
       /\ (result'.op = "createRoom" /\ result'.ok /\ uuids' # uuids) =>
            \A createData \in SecretCreateInputs :
              CreateRoom(createData) =>
                LET id == result'.room[1].id
                    twin == RepositoryCreate(Twin(rooms), id,
                               [name |-> Str(Trim(createData.name.s)),
                                capacity |-> Or(createData.capacity, Whole(defaultCapacity)),
                                password |-> Or(OtherPassword(createData.password), Null),
                                announcement |-> Or(createData.announcement, Str(<<>>)),
                                creatorId |-> uuids',
                                creatorNickname |-> Str(Trim(createData.creatorNickname.s))],
                               now)
                IN  /\ ValidateCreateParams(
                          [createData EXCEPT !.password = OtherPassword(@)]) = <<>>
                    /\ twin = Twin(rooms')
                    /\ result'.room = <<ToDetailJSON(twin[id])>>
       /\ result'.op = "verifyRoomPassword" =>
            \A id \in DOMAIN rooms, password \in PasswordInputs :
              VerifyRoomPassword(id, password) =>
                result'.ok = ValidatePassword(Twin(rooms)[id], OtherPassword(password))
       /\ result'.op = "joinRoom" =>
            \A id \in ShortIds, joinData \in SecretJoinInputs :
              JoinRoom(id, joinData) =>
                LET error == JoinRoomError(Twin(rooms), id,
                                [joinData EXCEPT !.password = OtherPassword(@)])
                IN  /\ result'.error = error
                    /\ error = "None" =>
                         LET room == AddParticipant(Twin(rooms)[id],
                                        [id |-> uuids',
                                         nickname |-> Str(Trim(joinData.nickname.s)),
                                         role |-> "viewer"], now)
                         IN  /\ room = Twin(rooms')[id]
                             /\ result'.room = <<ToDetailJSON(room)>>
       /\ (result'.op = "updateRoom" /\ result'.ok) =>
            \A id \in DOMAIN rooms, operatorId \in Uuids,
               updateData \in SecretUpdateInputs :
              UpdateRoom(id, operatorId, updateData) =>
                LET room == UpdateConfig(Twin(rooms)[id],
                               [updateData EXCEPT !.password = OtherPassword(@)], now)
                IN  /\ IsCreator(Twin(rooms)[id], operatorId)
                    /\ room = Twin(rooms')[id]
                    /\ result'.room = <<ToDetailJSON(room)>>]_vars

C39_Witness ==
    /\ result.op = "joinRoom" /\ result.ok
    /\ \E id \in DOMAIN rooms :
         /\ rooms[id].password = Pw_xyz
         /\ rooms[id].name = Name_b
         /\ Len(rooms[id].participants) = 2

====
